---------------------------- MODULE Spec2Model ----------------------------
(***************************************************************************)
(* Model of the recommendation pipeline of the movie-discovery backend:    *)
(* recommendation-service/internal/{handler,service,repository}.           *)
(*                                                                         *)
(* Units.  Time is counted in ticks of ten minutes (the cache TTL), so the *)
(* 730-day recency window is 730 * 144 ticks.  Weights are kept in tenths  *)
(* (0.4 is 4) and scores in ten-thousandths (1.0 is 10000), the grain the  *)
(* code rounds to.  Score arithmetic is exact rational arithmetic followed *)
(* by the code's rounding; float64 representation error is not modelled.   *)
(***************************************************************************)
EXTENDS Integers, Sequences, FiniteSets, TLC

VARIABLES
    now,        \* wall clock, in ticks
    cache,      \* Redis: key <<userId, limit>> -> NoEntry or [val, exp]
    snapshots,  \* rows of user_recommendation_snapshots: [user_id, movie_id, score]
    req,        \* per worker: the HTTP request it is serving and where it stands
    gor,        \* per worker: the detached snapshot goroutine of its request
    eng,        \* one call of the scoring pipeline with its inputs and results
    limiter,    \* api-gateway: the rate-limit key in Redis and the requests of one IP
    userSvc,    \* user-preference-service: preference row, its cache key and the calls
    movieSvc,   \* movie-service: movie row, its cache keys, the sync and the reads
    mains       \* the main function of each service, from the signal to its exit

\* the state of the services around the recommendation service
svcVars == <<limiter, userSvc, movieSvc, mains>>

\* the state of the recommendation service
recVars == <<now, cache, snapshots, req, gor, eng>>

vars == <<now, cache, snapshots, req, gor, eng, limiter, userSvc, movieSvc, mains>>

----------------------------------------------------------------------------
(* Bounds of the model *)

\* clock horizon, in ticks
MaxNow == 1

\* concurrent request workers
Workers == {1, 2}

\* api-gateway: RATE_LIMIT_MAX and RATE_LIMIT_WINDOW_SECONDS as configured
\* for the model (100 and 60 by default)
maxReqs == 2
windowSec == 2

\* api-gateway: clock horizon in seconds, and requests sent by the one IP
MaxClock == 3
MaxRequests == 4

----------------------------------------------------------------------------
(* Program constants *)

\* handler: default and fallback limit
DefaultLimit == 10
\* handler: largest accepted limit
MaxLimit == 50
\* service: 10 * time.Minute, one tick
CacheTTL == 1
\* service: fetchMovies(ctx, 3)
PrefetchDepth == 3
\* ticks per day: time.Since(t).Hours() / 24
TicksPerDay == 144
\* service: linear decay over 730 days
RecencyDays == 730
\* service: math.Round(totalScore*10000) / 10000
ScoreScale == 10000
\* weights are kept in tenths: a unit weight is 10
WeightUnit == 10

RecencyWindow == RecencyDays * TicksPerDay

----------------------------------------------------------------------------
(* Small helpers *)

Max(a, b) == IF a >= b THEN a ELSE b
Min(a, b) == IF a <= b THEN a ELSE b

Range(s) == {s[i] : i \in 1..Len(s)}

\* strings.ToLower on the genre names used in the model
ToLower(g) ==
    CASE g = "Action" -> "action"
      [] g = "ACTION" -> "action"
      [] g = "Drama"  -> "drama"
      [] g = "Comedy" -> "comedy"
      [] OTHER        -> g

----------------------------------------------------------------------------
(* Scoring engine: service.scoreMovies and its helpers *)

\* time.Parse("2006-01-02", releaseDate): a release date is <<>> (empty or
\* unparseable) or <<t>>, the tick of its midnight.
ParseOk(releaseDate) == Len(releaseDate) = 1

\* a mutant: the days since release are not floored at 0
computeRecencyNoFloor(releaseDate, t) ==
    IF ~ParseOk(releaseDate) THEN 0
    ELSE Max(RecencyWindow - (t - releaseDate[1]), 0)

\* computeRecencyScore as the fraction num / RecencyWindow
computeRecencyNum(releaseDate, t) ==
    IF ~ParseOk(releaseDate) THEN 0
    ELSE LET daysSince == Max(t - releaseDate[1], 0)
             score     == RecencyWindow - daysSince
         IN  Max(score, 0)

\* a mutant: the genres of the movie are compared as they are spelled
GenreMatchesExact(movieGenres, preferredGenres) ==
    Cardinality({i \in 1..Len(movieGenres) : movieGenres[i] \in preferredGenres})

\* the matches counted by computeGenreMatchScore
GenreMatches(movieGenres, preferredGenres) ==
    Cardinality({i \in 1..Len(movieGenres) : ToLower(movieGenres[i]) \in preferredGenres})

\* computeGenreMatchScore as the fraction [num, den]
computeGenreMatchScore(movieGenres, preferredGenres) ==
    IF Len(movieGenres) = 0 THEN [num |-> 0, den |-> 1]
    ELSE [num |-> GenreMatches(movieGenres, preferredGenres), den |-> Len(movieGenres)]

\* ruleWeights[r.RuleType] = r.Weight over the rules in order: the last rule
\* of a type wins
HasRule(rules, ruleType) == \E i \in 1..Len(rules) : rules[i].rule_type = ruleType

\* a mutant: every active rule counts with weight 1.0
RuleWeightUnit(rules, ruleType) == WeightUnit

RuleWeight(rules, ruleType) ==
    LET last == CHOOSE i \in 1..Len(rules) :
                    /\ rules[i].rule_type = ruleType
                    /\ \A j \in 1..Len(rules) : rules[j].rule_type = ruleType => j <= i
    IN  rules[last].weight

RECURSIVE MaxPopularity(_)
MaxPopularity(movies) ==
    IF Len(movies) = 0 THEN 0
    ELSE Max(Head(movies).popularity, MaxPopularity(Tail(movies)))

\* a mutant: the divisor is the largest popularity plus one
NormPopSmoothed(movies) == MaxPopularity(movies) + 1

\* maxPop after the "if maxPop == 0 { maxPop = 1 }" guard
NormPop(movies) == IF MaxPopularity(movies) = 0 THEN 1 ELSE MaxPopularity(movies)

PrefGenreSet(preferredGenres) == {ToLower(g) : g \in Range(preferredGenres)}

\* math.Round: q + fn/fd (0 <= fn, 0 < fd) rounded half away from zero
RoundHalfAway(q, fn, fd) ==
    LET qq == q + (fn \div fd)
        ff == fn % fd
    IN  IF qq >= 0 THEN qq + ((2 * ff + fd) \div (2 * fd))
        ELSE qq - ((fd - 2 * ff) \div (2 * fd))

\* One term weight * num / den of the total, in ten-thousandths, split into
\* its whole part and the remainder over den.
TermScale == ScoreScale \div WeightUnit
TermWhole(w, num, den) == (TermScale * w * num) \div den
TermRem(w, num, den)   == (TermScale * w * num) % den

\* the components scoreMovies adds up for movie m: each [on, w, num, den]
PopComponent(m, movies, rules) ==
    IF HasRule(rules, "popularity")
    THEN [on |-> TRUE, w |-> RuleWeight(rules, "popularity"),
          num |-> m.popularity, den |-> NormPop(movies)]
    ELSE [on |-> FALSE, w |-> 0, num |-> 0, den |-> 1]

RecencyComponent(m, rules, t) ==
    IF HasRule(rules, "recency")
    THEN [on |-> TRUE, w |-> RuleWeight(rules, "recency"),
          num |-> computeRecencyNum(m.release_date, t), den |-> RecencyWindow]
    ELSE [on |-> FALSE, w |-> 0, num |-> 0, den |-> 1]

GenreComponent(m, preferredGenres, rules) ==
    IF HasRule(rules, "genre_match") /\ PrefGenreSet(preferredGenres) # {}
    THEN LET g == computeGenreMatchScore(m.genres, PrefGenreSet(preferredGenres))
         IN  [on |-> TRUE, w |-> RuleWeight(rules, "genre_match"),
              num |-> g.num, den |-> g.den]
    ELSE [on |-> FALSE, w |-> 0, num |-> 0, den |-> 1]

\* totalScore after math.Round(totalScore*10000): the sum of the three terms
TotalScore(p, r, g) ==
    LET whole == TermWhole(p.w, p.num, p.den) + TermWhole(r.w, r.num, r.den)
                 + TermWhole(g.w, g.num, g.den)
        fd    == p.den * r.den * g.den
        fn    == TermRem(p.w, p.num, p.den) * r.den * g.den
                 + TermRem(r.w, r.num, r.den) * p.den * g.den
                 + TermRem(g.w, g.num, g.den) * p.den * r.den
    IN  RoundHalfAway(whole, fn, fd)

\* the reason tags, in the order the code appends them
Reasons(p, r, g) ==
    (IF p.on /\ 10 * p.num > 7 * p.den THEN <<"highly popular">> ELSE <<>>)
    \o (IF r.on /\ 10 * r.num > 7 * r.den THEN <<"recently released">> ELSE <<>>)
    \o (IF g.on /\ g.num > 0 THEN <<"matches your preferred genres">> ELSE <<>>)

ReasonOf(tags) == IF Len(tags) > 0 THEN tags ELSE <<"recommended for you">>

ScoreOne(m, movies, preferredGenres, rules, t) ==
    LET p == PopComponent(m, movies, rules)
        r == RecencyComponent(m, rules, t)
        g == GenreComponent(m, preferredGenres, rules)
    IN  [id |-> m.id, title |-> m.title, release_date |-> m.release_date,
         genres |-> m.genres, popularity |-> m.popularity,
         score |-> TotalScore(p, r, g), reason |-> ReasonOf(Reasons(p, r, g))]

scoreMovies(movies, preferredGenres, rules, t) ==
    [i \in 1..Len(movies) |-> ScoreOne(movies[i], movies, preferredGenres, rules, t)]

\* sort.Slice(scored, score descending): sort.Slice is documented as not
\* stable, so any arrangement in non-increasing score order may come out.
IsPermutation(a, b) ==
    /\ Len(a) = Len(b)
    /\ \E f \in [1..Len(a) -> 1..Len(a)] :
          /\ \A i, j \in 1..Len(a) : i # j => f[i] # f[j]
          /\ \A i \in 1..Len(a) : b[i] = a[f[i]]

Descending(s) == \A i \in 1..(Len(s) - 1) : s[i].score >= s[i + 1].score

\* a mutant: the comparison is the wrong way round
SortByScoreAscending(scored) ==
    {[i \in 1..Len(scored) |-> scored[f[i]]] :
        f \in {h \in [1..Len(scored) -> 1..Len(scored)] :
                 /\ \A i, j \in 1..Len(scored) : i # j => h[i] # h[j]
                 /\ \A i \in 1..(Len(scored) - 1) :
                        scored[h[i]].score <= scored[h[i + 1]].score}}

SortByScore(scored) ==
    {[i \in 1..Len(scored) |-> scored[f[i]]] :
        f \in {h \in [1..Len(scored) -> 1..Len(scored)] :
                 /\ \A i, j \in 1..Len(scored) : i # j => h[i] # h[j]
                 /\ \A i \in 1..(Len(scored) - 1) :
                        scored[h[i]].score >= scored[h[i + 1]].score}}

\* a mutant: the truncation keeps the end of the list
TruncateTail(scored, limit) ==
    IF Len(scored) > limit THEN SubSeq(scored, Len(scored) - limit + 1, Len(scored)) ELSE scored

\* if len(scored) > limit { scored = scored[:limit] }
Truncate(scored, limit) ==
    IF Len(scored) > limit THEN SubSeq(scored, 1, limit) ELSE scored

----------------------------------------------------------------------------
(* The collaborators' data the model draws from *)

\* release dates: today (tick 0) and ten years before it
Today  == <<0>>
TenYearsAgo == <<0 - 3650 * TicksPerDay>>

Movie(id, rel, genres, pop) ==
    [id |-> id, title |-> id, release_date |-> rel, genres |-> genres, popularity |-> pop]

\* A catalog is what the movie service holds: the pages of its list endpoint
\* (popularity descending) and the total_pages it reports.
CatalogFull ==
    [total_pages |-> 2,
     pages |-> << <<Movie(1, Today, <<"Action">>, 10), Movie(2, TenYearsAgo, <<"Drama">>, 5)>>,
                  <<Movie(3, TenYearsAgo, <<"Drama">>, 5)>> >>]

CatalogEmpty == [total_pages |-> 0, pages |-> <<>>]

Catalogs == {CatalogFull, CatalogEmpty}

\* sets of movie ids whose detail request fails
DetailFailures == {{}}

\* the list page that fails: 0 for none
ListFailures == {0, 1, 2}

\* what GetActiveRules can return: the seeded rules (ORDER BY rule_type), or
\* the rules after the genre rule was deactivated
SeededRules ==
    << [rule_type |-> "genre_match", weight |-> 3],
       [rule_type |-> "popularity",  weight |-> 4],
       [rule_type |-> "recency",     weight |-> 3] >>

RuleSets == {SeededRules}

\* what the preference service can answer with status 200
PreferenceProfiles == {<<"Action">>}

\* how a preference fetch can fail
PreferenceFailures == {"transport", "status", "decode"}

----------------------------------------------------------------------------
(* Catalog client: service.fetchMovies and service.fetchMovieDetail *)

\* GET /movies?page=p: the list response of the movie service
ListPage(catalog, p) ==
    [total_pages |-> catalog.total_pages,
     data |-> IF p <= Len(catalog.pages) THEN catalog.pages[p] ELSE <<>>]

\* fetchMovieDetail and its fallback: the detail when the request succeeds,
\* else the summary alone (no genres)
PoolItem(item, detailFail) ==
    IF item.id \in detailFail
    THEN [id |-> item.id, title |-> item.title, release_date |-> item.release_date,
          genres |-> <<>>, popularity |-> item.popularity]
    ELSE item

\* a mutant: an item whose detail request fails is left out
PageItemsSkipFailed(data, detailFail) ==
    SelectSeq(data, LAMBDA item : item.id \notin detailFail)

PageItems(data, detailFail) == [i \in 1..Len(data) |-> PoolItem(data[i], detailFail)]

\* the HTTP requests fetchMovies sends, as it sends them
ListRequest(p)    == [kind |-> "list", arg |-> p]
DetailRequest(id) == [kind |-> "detail", arg |-> id]

\* one round of the loop: the list request, then a detail request per item
PageRequests(p, data) ==
    <<ListRequest(p)>> \o [i \in 1..Len(data) |-> DetailRequest(data[i].id)]

\* a mutant: a list page that cannot be read is skipped and the loop goes on
RECURSIVE fetchMoviesSkipFailedPage(_, _, _, _, _, _)
fetchMoviesSkipFailedPage(catalog, p, pages, listFail, detailFail, allMovies) ==
    IF p > pages THEN [err |-> FALSE, movies |-> allMovies, requests |-> <<>>]
    ELSE LET listResp == ListPage(catalog, p)
             more     == IF p = listFail THEN allMovies
                         ELSE allMovies \o PageItems(listResp.data, detailFail)
             asked    == IF p = listFail THEN <<ListRequest(p)>>
                         ELSE PageRequests(p, listResp.data)
         IN  IF p /= listFail /\ p >= listResp.total_pages
             THEN [err |-> FALSE, movies |-> more, requests |-> asked]
             ELSE LET rest == fetchMoviesSkipFailedPage(catalog, p + 1, pages, listFail,
                                                        detailFail, more)
                  IN  [rest EXCEPT !.requests = asked \o @]

\* the loop of fetchMovies from page p on, with allMovies collected so far;
\* listFail is the page whose list request fails (transport error, status
\* other than 200 or a body that does not decode), 0 when none does
RECURSIVE fetchMoviesFrom(_, _, _, _, _, _)
fetchMoviesFrom(catalog, p, pages, listFail, detailFail, allMovies) ==
    IF p > pages THEN [err |-> FALSE, movies |-> allMovies, requests |-> <<>>]
    ELSE IF p = listFail
    THEN [err |-> TRUE, movies |-> <<>>, requests |-> <<ListRequest(p)>>]
    ELSE LET listResp == ListPage(catalog, p)
             more     == allMovies \o PageItems(listResp.data, detailFail)
             asked    == PageRequests(p, listResp.data)
         IN  IF p >= listResp.total_pages
             THEN [err |-> FALSE, movies |-> more, requests |-> asked]
             ELSE LET rest == fetchMoviesFrom(catalog, p + 1, pages, listFail,
                                              detailFail, more)
                  IN  [rest EXCEPT !.requests = asked \o @]

fetchMovies(catalog, pages, listFail, detailFail) ==
    fetchMoviesFrom(catalog, 1, pages, listFail, detailFail, <<>>)

----------------------------------------------------------------------------
(* Cache values: json.Marshal and json.Unmarshal of a RecommendationResponse *)

\* One recommendation as the JSON object the encoder writes: the fields in
\* struct order, each under its json tag.
MarshalRec(rec) ==
    << <<"id", rec.id>>, <<"title", rec.title>>, <<"release_date", rec.release_date>>,
       <<"genres", rec.genres>>, <<"popularity", rec.popularity>>,
       <<"score", rec.score>>, <<"reason", rec.reason>> >>

\* a mutant: the encoder leaves the scores out
MarshalNoScore(resp) ==
    << "json",
       <<"user_id", resp.user_id>>,
       <<"recommendations", [i \in 1..Len(resp.recommendations) |->
                                MarshalRec([resp.recommendations[i] EXCEPT !.score = 0])]>>,
       <<"generated_at", resp.generated_at>> >>

\* json.Marshal(resp)
Marshal(resp) ==
    << "json",
       <<"user_id", resp.user_id>>,
       <<"recommendations", [i \in 1..Len(resp.recommendations) |->
                                MarshalRec(resp.recommendations[i])]>>,
       <<"generated_at", resp.generated_at>> >>

\* a value under a recommendations key that json.Unmarshal rejects
Garbage == <<"garbage">>

UnmarshalRec(obj) ==
    [id |-> obj[1][2], title |-> obj[2][2], release_date |-> obj[3][2],
     genres |-> obj[4][2], popularity |-> obj[5][2],
     score |-> obj[6][2], reason |-> obj[7][2]]

\* json.Unmarshal: [ok, resp]
Unmarshal(data) ==
    IF data[1] = "json"
    THEN [ok |-> TRUE,
          resp |-> [user_id |-> data[2][2],
                    recommendations |-> [i \in 1..Len(data[3][2]) |-> UnmarshalRec(data[3][2][i])],
                    generated_at |-> data[4][2]]]
    ELSE [ok |-> FALSE, resp |-> [user_id |-> 0, recommendations |-> <<>>, generated_at |-> 0]]

----------------------------------------------------------------------------
(* State *)

\* what a client can send as :id (0 stands for any non-positive or
\* non-numeric id, which fiber.Params[int] reads as 0) and as ?limit
RawUserIds == {0, 1}
RawLimits  == {1, 51}

Users  == {u \in RawUserIds : u > 0}

\* a mutant: a limit above 50 is cut down to 50
EffectiveLimitCap(rawLimit) ==
    IF rawLimit <= 0 THEN DefaultLimit ELSE Min(rawLimit, MaxLimit)

\* handler: limit <= 0 || limit > 50 -> 10
EffectiveLimit(rawLimit) ==
    IF rawLimit <= 0 \/ rawLimit > MaxLimit THEN DefaultLimit ELSE rawLimit

Limits == {EffectiveLimit(l) : l \in RawLimits}

\* fmt.Sprintf("recommendations:%d:%d", userID, limit)
CacheKey(userID, limit) == <<userID, limit>>
CacheKeys == {CacheKey(u, l) : u \in Users, l \in Limits}

NoResp  == [user_id |-> 0, recommendations |-> <<>>, generated_at |-> 0]

\* A cache entry: the stored bytes and their expiry; src keeps, for the
\* record, the response the bytes were marshalled from.
NoEntry == [present |-> FALSE, val |-> <<>>, exp |-> 0, src |-> NoResp]

IdleReq ==
    [pc |-> "idle", user |-> 0, limit |-> 0, cancelled |-> FALSE,
     prefs |-> <<>>, prefFailed |-> FALSE,
     pool |-> <<>>, listFailed |-> FALSE, rulesFailed |-> FALSE,
     resp |-> NoResp, status |-> 0, trace |-> <<>>]

IdleGor == [pc |-> "idle", i |-> 0, storeFailed |-> FALSE]

\* the scoring pipeline record while no call is under study
EngOff ==
    [pc |-> "off", rawLimit |-> <<>>, limit |-> 0, catalog |-> CatalogEmpty,
     listFail |-> 0, detailFail |-> {}, prefs |-> <<>>, rules |-> <<>>,
     err |-> FALSE, requests |-> <<>>, pool |-> <<>>, parts |-> <<>>, scored |-> <<>>, ranked |-> <<>>, out |-> <<>>,
     again |-> <<>>]

\* the other services while they are not under study
LimiterOff  == [clock |-> 0, up |-> FALSE, outage |-> FALSE, sent |-> 0,
                key |-> [present |-> FALSE, count |-> 0, ttl |-> FALSE, exp |-> 0],
                h |-> <<>>, passed |-> <<>>]
UserSvcOff  == [db |-> 0, key |-> [present |-> FALSE, val |-> 0], fault |-> FALSE,
                set |-> [pc |-> "off", p |-> 0], lastSet |-> 0, get |-> <<>>]
MovieSvcOff == [db |-> [popularity |-> 0, runtime |-> 0], fault |-> FALSE,
                keys |-> <<>>, sync |-> "off", rt |-> "off", rd |-> <<>>]
MainsOff    == <<>>

\* Redis may already hold a value the service cannot decode under one of its
\* keys (left by another writer); otherwise it starts empty.
InitialCaches ==
    {[k \in CacheKeys |-> NoEntry],
     [k \in CacheKeys |-> IF k = CacheKey(1, DefaultLimit)
                          THEN [present |-> TRUE, val |-> Garbage, exp |-> CacheTTL, src |-> NoResp]
                          ELSE NoEntry]}

Init ==
    /\ now = 0
    /\ cache \in InitialCaches
    /\ snapshots = {}
    /\ req = [w \in Workers |-> IdleReq]
    /\ gor = [w \in Workers |-> IdleGor]
    /\ eng = EngOff
    /\ limiter = LimiterOff
    /\ userSvc = UserSvcOff
    /\ movieSvc = MovieSvcOff
    /\ mains = MainsOff

\* rdb.Get: the entry is there until its TTL has run out
Live(entry, t) == entry.present /\ t < entry.exp

\* the rows of one user
RowsOf(rows, userID) == {row \in rows : row.user_id = userID}

----------------------------------------------------------------------------
(* Repository: ClearSnapshots and UpsertSnapshot as the statements they run *)

\* DELETE FROM user_recommendation_snapshots WHERE user_id = $1
ClearSnapshots(rows, userID) == rows \ RowsOf(rows, userID)

\* a mutant: a plain INSERT into a table without the unique constraint
InsertSnapshot(rows, userID, movieID, score) ==
    rows \cup {[user_id |-> userID, movie_id |-> movieID, score |-> score]}

\* INSERT ... ON CONFLICT (user_id, movie_id) DO UPDATE SET score
UpsertSnapshot(rows, userID, movieID, score) ==
    {row \in rows : ~(row.user_id = userID /\ row.movie_id = movieID)}
    \cup {[user_id |-> userID, movie_id |-> movieID, score |-> score]}

----------------------------------------------------------------------------
(* Handler and service: GetRecommendations, one action per blocking call.  *)
(* r is the worker's request record, t the time of the step.               *)

\* rdb.Get(ctx, cacheKey).Result(): err is "" with the value, "nil" for a
\* missing or expired key (redis.Nil), "conn" when Redis cannot be reached
CacheGet(entry, getOk, t) ==
    IF ~getOk THEN [err |-> "conn", val |-> <<>>]
    ELSE IF ~Live(entry, t) THEN [err |-> "nil", val |-> <<>>]
    ELSE [err |-> "", val |-> entry.val]

\* a mutant: a Redis failure fails the request
CacheLookupStrict(r, got) ==
    IF got.err = "conn"
    THEN [r EXCEPT !.pc = "done", !.status = 500, !.trace = <<"cacheGet", "respond">>]
    ELSE IF got.err = "" /\ Unmarshal(got.val).ok
    THEN [r EXCEPT !.pc = "done", !.resp = Unmarshal(got.val).resp, !.status = 200,
                   !.trace = <<"cacheGet", "respond">>]
    ELSE [r EXCEPT !.pc = "prefs", !.trace = <<"cacheGet">>]

\* the cache check: a value read without error that decodes is returned at
\* once; anything else falls through to the fetches
CacheLookup(r, got) ==
    IF got.err = "" /\ Unmarshal(got.val).ok
    THEN [r EXCEPT !.pc = "done", !.resp = Unmarshal(got.val).resp, !.status = 200,
                   !.trace = <<"cacheGet", "respond">>]
    ELSE [r EXCEPT !.pc = "prefs", !.trace = <<"cacheGet">>]

\* handler: 400 for userID <= 0
BadRequest(r) == [r EXCEPT !.pc = "done", !.status = 400, !.limit = 0]

\* The handler validates the id, clamps the limit and calls the service,
\* which reads the cache.
Handle(w) ==
    /\ req[w].pc = "idle"
    /\ \E rawUser \in RawUserIds, rawLimit \in RawLimits, getOk \in BOOLEAN :
          LET limit == EffectiveLimit(rawLimit)
              r0    == [req[w] EXCEPT !.user = rawUser, !.limit = limit]
          IN  IF rawUser <= 0
              THEN req' = [req EXCEPT ![w] = BadRequest(r0)]
              ELSE req' = [req EXCEPT ![w] =
                              CacheLookup(r0, CacheGet(cache[CacheKey(rawUser, limit)], getOk, now))]
    /\ UNCHANGED <<now, cache, snapshots, gor, eng, svcVars>>

\* a mutant: the default profile carries a genre
DefaultProfileAction == <<"Action">>

\* the profile substituted when the preference fetch fails
DefaultProfile == <<>>

\* fetchUserPreferences; on any failure the default profile
FetchPrefs(w) ==
    /\ req[w].pc = "prefs"
    /\ \/ /\ ~req[w].cancelled
          /\ \E genres \in PreferenceProfiles :
                req' = [req EXCEPT ![w] = [@ EXCEPT !.pc = "pool", !.prefs = genres,
                                                    !.trace = Append(@, "prefs")]]
       \/ \E failure \in PreferenceFailures :
             /\ req[w].cancelled => failure = "transport"
             /\ req' = [req EXCEPT ![w] = [@ EXCEPT !.pc = "pool", !.prefs = DefaultProfile,
                                                    !.prefFailed = TRUE,
                                                    !.trace = Append(@, "prefs")]]
    /\ UNCHANGED <<now, cache, snapshots, gor, eng, svcVars>>

EmptyResponse(r, t) ==
    [r EXCEPT !.pc = "done", !.status = 200,
              !.resp = [user_id |-> r.user, recommendations |-> <<>>, generated_at |-> t],
              !.trace = Append(@, "respond")]

\* a mutant: a failed list fetch is swallowed and answered like an empty pool
PoolFetchedSwallow(r, got, t) ==
    LET r1 == [r EXCEPT !.trace = Append(@, "pool")]
    IN  IF got.err THEN EmptyResponse([r1 EXCEPT !.listFailed = TRUE], t)
        ELSE IF Len(got.movies) = 0 THEN EmptyResponse(r1, t)
        ELSE [r1 EXCEPT !.pc = "rules", !.pool = got.movies]

\* a mutant: an empty pool goes on to the rules, the cache and the snapshot
PoolFetchedNoEmptyCheck(r, got, t) ==
    LET r1 == [r EXCEPT !.trace = Append(@, "pool")]
    IN  IF got.err THEN [r1 EXCEPT !.pc = "done", !.listFailed = TRUE, !.status = 500]
        ELSE [r1 EXCEPT !.pc = "rules", !.pool = got.movies]

\* what follows fetchMovies: the error return, the empty response, or on
PoolFetched(r, got, t) ==
    LET r1 == [r EXCEPT !.trace = Append(@, "pool")]
    IN  IF got.err THEN [r1 EXCEPT !.pc = "done", !.listFailed = TRUE, !.status = 500]
        ELSE IF Len(got.movies) = 0 THEN EmptyResponse(r1, t)
        ELSE [r1 EXCEPT !.pc = "rules", !.pool = got.movies]

\* fetchMovies, and the two early returns that follow it
FetchPool(w) ==
    /\ req[w].pc = "pool"
    /\ \E catalog \in Catalogs, listFail \in ListFailures, detailFail \in DetailFailures :
          /\ req[w].cancelled => listFail = 1
          /\ req' = [req EXCEPT ![w] =
                        PoolFetched(req[w],
                                    fetchMovies(catalog, PrefetchDepth, listFail, detailFail), now)]
    /\ UNCHANGED <<now, cache, snapshots, gor, eng, svcVars>>

\* a mutant: without rules the request is answered with an empty list
RulesErrorDegrade(r, t) ==
    EmptyResponse([r EXCEPT !.rulesFailed = TRUE, !.trace = Append(@, "rules")], t)

\* return nil, fmt.Errorf("get rules: %w", err)
RulesError(r, t) ==
    [r EXCEPT !.pc = "done", !.rulesFailed = TRUE, !.status = 500,
              !.trace = Append(@, "rules")]

\* the response built from the ranked list, with the cache write still to come
Ranked(r, sorted, t) ==
    [r EXCEPT !.pc = "cacheSet",
              !.resp = [user_id |-> r.user,
                        recommendations |-> Truncate(sorted, r.limit),
                        generated_at |-> t],
              !.trace = @ \o <<"rules", "score", "rank", "spawn">>]

\* a mutant: the goroutine is not started before the cache write
SpawnLate(g) == g

\* go func() { ClearSnapshots; UpsertSnapshot... }()
Spawn(g) == [g EXCEPT !.pc = "clear", !.i = 1]

\* GetActiveRules, then scoring, sorting, truncating, the go statement and the
\* response: everything up to the cache write
GetRules(w) ==
    /\ req[w].pc = "rules"
    /\ \/ /\ req' = [req EXCEPT ![w] = RulesError(req[w], now)]
          /\ gor' = gor
       \/ \E rules \in RuleSets :
             \E sorted \in SortByScore(scoreMovies(req[w].pool, req[w].prefs, rules, now)) :
                /\ req' = [req EXCEPT ![w] = Ranked(req[w], sorted, now)]
                /\ gor' = [gor EXCEPT ![w] = Spawn(gor[w])]
    /\ UNCHANGED <<now, cache, snapshots, eng, svcVars>>

\* a mutant: the key is built from the user id and the default limit
CacheWriteDefaultKey(entries, r, t) ==
    [entries EXCEPT ![CacheKey(r.user, DefaultLimit)] =
        [present |-> TRUE, val |-> Marshal(r.resp), exp |-> t + CacheTTL, src |-> r.resp]]

\* rdb.Set(ctx, cacheKey, data, 10*time.Minute)
CacheWrite(entries, r, t) ==
    [entries EXCEPT ![CacheKey(r.user, r.limit)] =
        [present |-> TRUE, val |-> Marshal(r.resp), exp |-> t + CacheTTL, src |-> r.resp]]

\* return resp, nil
Respond(r) ==
    [r EXCEPT !.pc = "done", !.status = 200, !.trace = @ \o <<"cacheSet", "respond">>]

\* a mutant: the response waits for the snapshot write
CacheSetAfterSnapshot(w) ==
    /\ req[w].pc = "cacheSet"
    /\ gor[w].pc = "done"
    /\ \E setOk \in BOOLEAN :
          /\ req[w].cancelled => ~setOk
          /\ cache' = IF setOk THEN CacheWrite(cache, req[w], now) ELSE cache
          /\ req' = [req EXCEPT ![w] = Respond(req[w])]
    /\ UNCHANGED <<now, snapshots, gor, eng, svcVars>>

\* the cache write (its error is dropped), then the return
CacheSet(w) ==
    /\ req[w].pc = "cacheSet"
    /\ \E setOk \in BOOLEAN :
          /\ req[w].cancelled => ~setOk
          /\ cache' = IF setOk THEN CacheWrite(cache, req[w], now) ELSE cache
          /\ req' = [req EXCEPT ![w] = Respond(req[w])]
    /\ UNCHANGED <<now, snapshots, gor, eng, svcVars>>

----------------------------------------------------------------------------
(* The detached goroutine: ClearSnapshots, then one UpsertSnapshot per item *)

GorNext(w, i) ==
    IF i > Len(req[w].resp.recommendations)
    THEN [gor[w] EXCEPT !.pc = "done", !.i = 0]
    ELSE [gor[w] EXCEPT !.pc = "upsert", !.i = i]

SnapClear(w) ==
    /\ gor[w].pc = "clear"
    /\ \E execOk \in BOOLEAN :
          IF execOk
          THEN /\ snapshots' = ClearSnapshots(snapshots, req[w].user)
               /\ gor' = [gor EXCEPT ![w] = GorNext(w, 1)]
          ELSE /\ snapshots' = snapshots
               /\ gor' = [gor EXCEPT ![w] = [GorNext(w, 1) EXCEPT !.storeFailed = TRUE]]
    /\ UNCHANGED <<now, cache, req, eng, svcVars>>

\* a mutant: the goroutine gives up once the request context is cancelled
SnapUpsertUnlessCancelled(w) ==
    /\ gor[w].pc = "upsert"
    /\ ~req[w].cancelled
    /\ LET rec == req[w].resp.recommendations[gor[w].i]
       IN  /\ snapshots' = UpsertSnapshot(snapshots, req[w].user, rec.id, rec.score)
           /\ gor' = [gor EXCEPT ![w] = GorNext(w, gor[w].i + 1)]
    /\ UNCHANGED <<now, cache, req, eng, svcVars>>

SnapUpsert(w) ==
    /\ gor[w].pc = "upsert"
    /\ LET rec == req[w].resp.recommendations[gor[w].i]
       IN  \E execOk \in BOOLEAN :
              IF execOk
              THEN /\ snapshots' = UpsertSnapshot(snapshots, req[w].user, rec.id, rec.score)
                   /\ gor' = [gor EXCEPT ![w] = GorNext(w, gor[w].i + 1)]
              ELSE /\ snapshots' = snapshots
                   /\ gor' = [gor EXCEPT ![w] =
                                 [GorNext(w, gor[w].i + 1) EXCEPT !.storeFailed = TRUE]]
    /\ UNCHANGED <<now, cache, req, eng, svcVars>>

----------------------------------------------------------------------------
(* Environment *)

\* the clock advances; Redis drops the entries whose TTL has run out
Tick ==
    /\ now < MaxNow
    /\ now' = now + 1
    /\ cache' = [k \in CacheKeys |-> IF Live(cache[k], now + 1) THEN cache[k] ELSE NoEntry]
    /\ UNCHANGED <<snapshots, req, gor, eng, svcVars>>

\* the client goes away: the request context is cancelled
Cancel(w) ==
    /\ ~req[w].cancelled
    /\ \/ req[w].pc \in {"prefs", "pool", "rules", "cacheSet"}
       \/ req[w].pc = "done" /\ gor[w].pc \in {"clear", "upsert"}
    /\ req' = [req EXCEPT ![w] = [@ EXCEPT !.cancelled = TRUE]]
    /\ UNCHANGED <<now, cache, snapshots, gor, eng, svcVars>>

Next ==
    \/ \E w \in Workers : Handle(w)
    \/ \E w \in Workers : FetchPrefs(w)
    \/ \E w \in Workers : FetchPool(w)
    \/ \E w \in Workers : GetRules(w)
    \/ \E w \in Workers : CacheSet(w)
    \/ \E w \in Workers : SnapClear(w)
    \/ \E w \in Workers : SnapUpsert(w)
    \/ Tick

Spec == Init /\ [][Next]_vars

\* One worker whose client may go away at any moment.  The Go scheduler runs
\* a goroutine that can run, and each database call returns (with a result or
\* an error), so the goroutine's steps are weakly fair.
NextDetached ==
    \/ Handle(1)
    \/ FetchPrefs(1)
    \/ FetchPool(1)
    \/ GetRules(1)
    \/ CacheSet(1)
    \/ SnapClear(1)
    \/ SnapUpsert(1)
    \/ Cancel(1)
    \/ Tick

SpecDetached ==
    /\ Init
    /\ [][NextDetached]_vars
    /\ WF_vars(SnapClear(1))
    /\ WF_vars(SnapUpsert(1))

----------------------------------------------------------------------------
(* The scoring pipeline on its own: the limit clamp of the handler, then   *)
(* fetchMovies, scoreMovies, sort.Slice and the truncation, on inputs      *)
(* drawn from the sets below, with every collaborator answering.  The call *)
(* is then repeated a day later on the same inputs.                        *)

\* release dates around the recency window
Tomorrow    == <<TicksPerDay>>
YearAgo     == <<0 - 365 * TicksPerDay>>
TwoYearsAgo == <<0 - RecencyDays * TicksPerDay>>
NoDate      == <<>>

\* the scenario pool: one page with a popular, new, matching item and an
\* older, less popular one
CatalogPair ==
    [total_pages |-> 1,
     pages |-> << <<Movie(1, Today, <<"Action">>, 10), Movie(2, TenYearsAgo, <<"Drama">>, 5)>> >>]

\* items without popularity, released across the recency window
CatalogDates ==
    [total_pages |-> 2,
     pages |-> << <<Movie(1, Tomorrow, <<"Action", "Comedy">>, 0), Movie(2, YearAgo, <<"ACTION">>, 0)>>,
                  <<Movie(3, TwoYearsAgo, <<>>, 0), Movie(4, NoDate, <<"Drama", "Drama">>, 0)>> >>]

\* two items that differ by a third of the rounding grain at weight 0.1
CatalogClose ==
    [total_pages |-> 1,
     pages |-> << <<Movie(1, TenYearsAgo, <<"Action">>, 3001),
                    Movie(2, TenYearsAgo, <<"Action">>, 3000)>> >>]

\* more pages than fetchMovies asks for
CatalogDeep ==
    [total_pages |-> 4,
     pages |-> << <<Movie(1, Today, <<"Action">>, 4)>>, <<Movie(2, Today, <<"Drama">>, 3)>>,
                  <<Movie(3, YearAgo, <<"Comedy">>, 2)>>, <<Movie(4, YearAgo, <<>>, 1)>> >>]

EngCatalogs == {CatalogFull, CatalogEmpty, CatalogPair, CatalogDates, CatalogClose, CatalogDeep}

EngDetailFailures == {{}, {2}, {1, 2, 3, 4}}

\* the list page that cannot be read, 0 for none
EngListFailures == {0, 1, 2, 3}

\* rule sets GetActiveRules can return after rules were deactivated or their
\* weights changed
PopularityOnly == << [rule_type |-> "popularity", weight |-> 4] >>

NoPopularity ==
    << [rule_type |-> "genre_match", weight |-> 3],
       [rule_type |-> "recency",     weight |-> 3] >>

LowPopularity ==
    << [rule_type |-> "genre_match", weight |-> 3],
       [rule_type |-> "popularity",  weight |-> 1],
       [rule_type |-> "recency",     weight |-> 3] >>

NoRules == <<>>

EngRuleSets == {SeededRules, PopularityOnly, NoPopularity, LowPopularity, NoRules}

EngProfiles == {<<>>, <<"Action">>, <<"ACTION", "Drama">>}

\* the limit query parameter: <<>> when missing or not a number, else <<n>>
RawLimitQueries == {<<>>, <<0 - 1>>, <<0>>, <<1>>, <<2>>, <<50>>, <<51>>}

\* fiber.Query(c, "limit", 10)
QueryLimit(q) == IF Len(q) = 0 THEN DefaultLimit ELSE q[1]

\* popScore, recencyScore and genreScore of one movie as scoreMovies has them
Components(m, movies, preferredGenres, rules, t) ==
    [pop   |-> PopComponent(m, movies, rules),
     rec   |-> RecencyComponent(m, rules, t),
     genre |-> GenreComponent(m, preferredGenres, rules)]

InitEngine ==
    /\ now = 0
    /\ cache = [k \in CacheKeys |-> NoEntry]
    /\ snapshots = {}
    /\ req = [w \in Workers |-> IdleReq]
    /\ gor = [w \in Workers |-> IdleGor]
    /\ limiter = LimiterOff
    /\ userSvc = UserSvcOff
    /\ movieSvc = MovieSvcOff
    /\ mains = MainsOff
    /\ \E q \in RawLimitQueries, catalog \in EngCatalogs, listFail \in EngListFailures,
          detailFail \in EngDetailFailures, genres \in EngProfiles, rules \in EngRuleSets :
          eng = [EngOff EXCEPT !.pc = "input", !.rawLimit = q, !.catalog = catalog,
                               !.listFail = listFail, !.detailFail = detailFail,
                               !.prefs = genres, !.rules = rules]

\* handler: read and clamp the limit
EngHandle ==
    /\ eng.pc = "input"
    /\ eng' = [eng EXCEPT !.pc = "handled", !.limit = EffectiveLimit(QueryLimit(eng.rawLimit))]
    /\ UNCHANGED <<now, cache, snapshots, req, gor, svcVars>>

\* fetchMovies(ctx, 3); an error ends the call, an empty pool ends it with an
\* empty list
EngFetch ==
    /\ eng.pc = "handled"
    /\ LET got == fetchMovies(eng.catalog, PrefetchDepth, eng.listFail, eng.detailFail)
       IN  eng' = [eng EXCEPT !.pc = IF got.err THEN "failed"
                                    ELSE IF Len(got.movies) = 0 THEN "done" ELSE "fetched",
                              !.err = got.err, !.requests = got.requests,
                              !.pool = got.movies]
    /\ UNCHANGED <<now, cache, snapshots, req, gor, svcVars>>

\* scoreMovies(allMovies, prefs, rules)
EngScore ==
    /\ eng.pc = "fetched"
    /\ eng' = [eng EXCEPT !.pc = "scored",
                          !.parts = [i \in 1..Len(eng.pool) |->
                                        Components(eng.pool[i], eng.pool, eng.prefs, eng.rules, now)],
                          !.scored = scoreMovies(eng.pool, eng.prefs, eng.rules, now)]
    /\ UNCHANGED <<now, cache, snapshots, req, gor, svcVars>>

\* sort.Slice and the truncation to limit
EngRank ==
    /\ eng.pc = "scored"
    /\ \E sorted \in SortByScore(eng.scored) :
          eng' = [eng EXCEPT !.pc = "ranked", !.ranked = sorted,
                             !.out = Truncate(sorted, eng.limit)]
    /\ UNCHANGED <<now, cache, snapshots, req, gor, svcVars>>

\* a day passes
EngAdvance ==
    /\ eng.pc = "ranked"
    /\ now' = now + TicksPerDay
    /\ eng' = [eng EXCEPT !.pc = "later"]
    /\ UNCHANGED <<cache, snapshots, req, gor, svcVars>>

\* scoreMovies once more on the same pool, profile and rules
EngRescore ==
    /\ eng.pc = "later"
    /\ eng' = [eng EXCEPT !.pc = "done",
                          !.again = scoreMovies(eng.pool, eng.prefs, eng.rules, now)]
    /\ UNCHANGED <<now, cache, snapshots, req, gor, svcVars>>

NextEngine ==
    \/ EngHandle
    \/ EngFetch
    \/ EngScore
    \/ EngRank
    \/ EngAdvance
    \/ EngRescore

SpecEngine == InitEngine /\ [][NextEngine]_vars

----------------------------------------------------------------------------
(* The snapshot store on its own: generations of rankings for two users,   *)
(* each followed by its goroutine, over catalogs in which the list pages   *)
(* can show the same movie twice (the popularity order moved between two   *)
(* page requests and the movie was synced in between).                     *)

\* movie 1 is on page 1 and, with another popularity, on page 2 again
CatalogRepeat ==
    [total_pages |-> 2,
     pages |-> << <<Movie(1, Today, <<"Action">>, 10), Movie(2, TenYearsAgo, <<"Drama">>, 5)>>,
                  <<Movie(1, Today, <<"Action">>, 8)>> >>]

StoreUsers    == {1, 2}
StoreCatalogs == {CatalogPair, CatalogRepeat}
StoreProfiles == {<<"Action">>}

\* the responses a generation for userID can end with
StoreResponses(userID) ==
    {[user_id |-> userID, recommendations |-> Truncate(sorted, DefaultLimit),
      generated_at |-> 0] :
        sorted \in UNION {SortByScore(scoreMovies(
                              fetchMovies(catalog, PrefetchDepth, 0, {}).movies,
                              genres, SeededRules, 0)) :
                          catalog \in StoreCatalogs, genres \in StoreProfiles}}

InitStore ==
    /\ now = 0
    /\ cache = [k \in CacheKeys |-> NoEntry]
    /\ snapshots = {}
    /\ req = [w \in Workers |-> IdleReq]
    /\ gor = [w \in Workers |-> IdleGor]
    /\ eng = EngOff
    /\ limiter = LimiterOff
    /\ userSvc = UserSvcOff
    /\ movieSvc = MovieSvcOff
    /\ mains = MainsOff

\* a worker ends a generation for some user: the ranking is made and the
\* goroutine started
StoreGenerate(w) ==
    /\ gor[w].pc \in {"idle", "done"}
    /\ \E userID \in StoreUsers :
          \E resp \in StoreResponses(userID) :
             req' = [req EXCEPT ![w] = [IdleReq EXCEPT !.pc = "done", !.user = userID,
                                                      !.limit = DefaultLimit, !.resp = resp,
                                                      !.status = 200]]
    /\ gor' = [gor EXCEPT ![w] = Spawn(IdleGor)]
    /\ UNCHANGED <<now, cache, snapshots, eng, svcVars>>

NextStore ==
    \/ \E w \in Workers : StoreGenerate(w)
    \/ \E w \in Workers : SnapClear(w)
    \/ \E w \in Workers : SnapUpsert(w)

SpecStore == InitStore /\ [][NextStore]_vars

----------------------------------------------------------------------------
(* api-gateway: the rate limiter middleware, for the requests of one client *)
(* IP.  Time is in seconds.  Redis holds the key ratelimit:{ip}: a counter, *)
(* with or without an expiry.                                               *)

\* fiber runs the handler for several requests at once
Handlers == {1, 2}

NoKey == [present |-> FALSE, count |-> 0, ttl |-> FALSE, exp |-> 0]

\* a handler run: where it stands, the second its request came in, the count
\* INCR gave it, and how the last request ended: "next" (passed on after the
\* check), "open" (passed on because INCR failed), "429", or "none"
IdleHandler == [pc |-> "idle", at |-> 0, count |-> 0, out |-> "none"]

InitLimiter ==
    /\ now = 0
    /\ cache = [k \in CacheKeys |-> NoEntry]
    /\ snapshots = {}
    /\ req = [w \in Workers |-> IdleReq]
    /\ gor = [w \in Workers |-> IdleGor]
    /\ eng = EngOff
    /\ userSvc = UserSvcOff
    /\ movieSvc = MovieSvcOff
    /\ mains = MainsOff
    /\ limiter = [clock |-> 0, up |-> TRUE, outage |-> FALSE, sent |-> 0, key |-> NoKey,
                  h |-> [i \in Handlers |-> IdleHandler],
                  passed |-> [t \in 0..MaxClock |-> 0]]

\* rdb.Incr: creates the key at 1 without expiry, or adds 1
Incr(key) ==
    IF key.present THEN [key EXCEPT !.count = @ + 1]
    ELSE [present |-> TRUE, count |-> 1, ttl |-> FALSE, exp |-> 0]

\* rdb.Expire(key, windowSec seconds) at time t
Expire(key, t) ==
    IF key.present THEN [key EXCEPT !.ttl = TRUE, !.exp = t + windowSec] ELSE key

\* c.Next() was called for a request that came in at time t
PassedAt(passed, t) == [passed EXCEPT ![t] = @ + 1]

\* a mutant: a request is refused when INCR fails
IncrFailedClosed(hr, t) == [pc |-> "idle", at |-> t, count |-> 0, out |-> "429"]

\* if err != nil { return c.Next() }
IncrFailed(hr, t) == [pc |-> "idle", at |-> t, count |-> 0, out |-> "open"]

\* count, err := rl.rdb.Incr(ctx, key).Result()
RateIncr(i) ==
    /\ limiter.h[i].pc = "idle"
    /\ limiter.sent < MaxRequests
    /\ IF limiter.up
       THEN LET key == Incr(limiter.key)
            IN  limiter' = [limiter EXCEPT
                               !.sent = @ + 1,
                               !.key = key,
                               !.h[i] = [pc |-> IF key.count = 1 THEN "expire" ELSE "respond",
                                         at |-> limiter.clock,
                                         count |-> key.count, out |-> "none"]]
       ELSE LET hr == IncrFailed(limiter.h[i], limiter.clock)
            IN  limiter' = [limiter EXCEPT
                               !.sent = @ + 1,
                               !.h[i] = hr,
                               !.passed = IF hr.out = "open"
                                          THEN PassedAt(@, limiter.clock) ELSE @]
    /\ UNCHANGED <<recVars, userSvc, movieSvc, mains>>

\* if count == 1 { rl.rdb.Expire(...) }: the result is not looked at
RateExpire(i) ==
    /\ limiter.h[i].pc = "expire"
    /\ limiter' = [limiter EXCEPT
                      !.key = IF limiter.up THEN Expire(@, limiter.clock) ELSE @,
                      !.h[i].pc = "respond"]
    /\ UNCHANGED <<recVars, userSvc, movieSvc, mains>>

\* the TTL read for the headers, then 429 when count > maxReqs, else c.Next()
RateRespond(i) ==
    /\ limiter.h[i].pc = "respond"
    /\ IF limiter.h[i].count > maxReqs
       THEN limiter' = [limiter EXCEPT !.h[i] = [@ EXCEPT !.pc = "idle", !.out = "429"]]
       ELSE limiter' = [limiter EXCEPT !.h[i] = [@ EXCEPT !.pc = "idle", !.out = "next"],
                                       !.passed = PassedAt(@, limiter.h[i].at)]
    /\ UNCHANGED <<recVars, userSvc, movieSvc, mains>>

\* a second passes; Redis removes the key when its expiry is reached
RateTick ==
    /\ limiter.clock < MaxClock
    /\ limiter' = [limiter EXCEPT
                      !.clock = @ + 1,
                      !.key = IF @.present /\ @.ttl /\ @.exp <= limiter.clock + 1
                              THEN NoKey ELSE @]
    /\ UNCHANGED <<recVars, userSvc, movieSvc, mains>>

\* Redis stops answering, and answers again
RedisFails ==
    /\ limiter.up
    /\ limiter' = [limiter EXCEPT !.up = FALSE, !.outage = TRUE]
    /\ UNCHANGED <<recVars, userSvc, movieSvc, mains>>

RedisRecovers ==
    /\ ~limiter.up
    /\ limiter' = [limiter EXCEPT !.up = TRUE]
    /\ UNCHANGED <<recVars, userSvc, movieSvc, mains>>

\* the gateway process stops and is started again: the handler runs under
\* way are gone, Redis keeps what it has
GatewayStops ==
    /\ \E i \in Handlers : limiter.h[i].pc /= "idle"
    /\ limiter' = [limiter EXCEPT !.h = [i \in Handlers |-> IdleHandler], !.outage = TRUE]
    /\ UNCHANGED <<recVars, userSvc, movieSvc, mains>>

NextLimiter ==
    \/ \E i \in Handlers : RateIncr(i)
    \/ \E i \in Handlers : RateExpire(i)
    \/ \E i \in Handlers : RateRespond(i)
    \/ RateTick
    \/ RedisFails
    \/ RedisRecovers
    \/ GatewayStops

SpecLimiter == InitLimiter /\ [][NextLimiter]_vars

----------------------------------------------------------------------------
(* user-preference-service: SetPreference and GetPreference of one user,   *)
(* with the row of user_preferences and the Redis key user:pref:{id}.      *)
(* A preference is 1 or 2; 0 is "no row" in the table and the default      *)
(* preference GetPreference answers with when there is none.               *)

Preferences == {1, 2}

\* concurrent GetPreference calls
Getters == {1, 2}

NoPrefKey == [present |-> FALSE, val |-> 0]

\* a GetPreference call: where it stands, the row it read, its result (0 the
\* default, -1 an error), and expect: the preference the last successful
\* SetPreference had stored when the call started, 0 when there was none or
\* when a SetPreference was under way then or started since
IdleGetter == [pc |-> "idle", read |-> 0, returned |-> FALSE, ret |-> 0, expect |-> 0]

InitUserSvc ==
    /\ now = 0
    /\ cache = [k \in CacheKeys |-> NoEntry]
    /\ snapshots = {}
    /\ req = [w \in Workers |-> IdleReq]
    /\ gor = [w \in Workers |-> IdleGor]
    /\ eng = EngOff
    /\ limiter = LimiterOff
    /\ movieSvc = MovieSvcOff
    /\ mains = MainsOff
    /\ userSvc = [db |-> 0, key |-> NoPrefKey, fault |-> FALSE,
                  set |-> [pc |-> "idle", p |-> 0], lastSet |-> 0,
                  get |-> [g \in Getters |-> IdleGetter]]

\* a SetPreference call starts: the calls under way stop counting as started
\* after the last update
Overtaken(get) == [g \in Getters |-> [get[g] EXCEPT !.expect = 0]]

\* SetPreference: GetUser, then repo.UpsertPreference; an error ends the call
SetUpsert ==
    /\ userSvc.set.pc = "idle"
    /\ \E p \in Preferences, execOk \in BOOLEAN :
          IF execOk
          THEN userSvc' = [userSvc EXCEPT !.db = p, !.set = [pc |-> "del", p |-> p],
                                          !.lastSet = 0, !.get = Overtaken(@)]
          ELSE userSvc' = [userSvc EXCEPT !.fault = TRUE, !.lastSet = 0,
                                          !.get = Overtaken(@)]
    /\ UNCHANGED <<recVars, limiter, movieSvc, mains>>

\* SetPreference: s.delCache(key), its error dropped, then return pref, nil
SetDelCache ==
    /\ userSvc.set.pc = "del"
    /\ \E delOk \in BOOLEAN :
          userSvc' = [userSvc EXCEPT
                         !.key = IF delOk THEN NoPrefKey ELSE @,
                         !.fault = @ \/ ~delOk,
                         !.set = [pc |-> "idle", p |-> 0],
                         !.lastSet = userSvc.set.p]
    /\ UNCHANGED <<recVars, limiter, movieSvc, mains>>

\* GetPreference: the cache read; a hit is returned
GetCache(g) ==
    /\ userSvc.get[g].pc = "idle"
    /\ LET expect == IF userSvc.set.pc = "idle" THEN userSvc.lastSet ELSE 0
       IN  \E getOk \in BOOLEAN :
              IF getOk /\ userSvc.key.present
              THEN userSvc' = [userSvc EXCEPT
                                  !.get[g] = [pc |-> "idle", read |-> 0, returned |-> TRUE,
                                              ret |-> userSvc.key.val, expect |-> expect]]
              ELSE userSvc' = [userSvc EXCEPT
                                  !.fault = @ \/ ~getOk,
                                  !.get[g] = [pc |-> "db", read |-> 0, returned |-> FALSE,
                                              ret |-> 0, expect |-> expect]]
    /\ UNCHANGED <<recVars, limiter, movieSvc, mains>>

\* GetPreference: repo.GetPreference; no row gives the default, uncached
GetRow(g) ==
    /\ userSvc.get[g].pc = "db"
    /\ \E queryOk \in BOOLEAN :
          IF ~queryOk
          THEN userSvc' = [userSvc EXCEPT
                              !.fault = TRUE,
                              !.get[g] = [@ EXCEPT !.pc = "idle", !.returned = TRUE,
                                                   !.ret = 0 - 1]]
          ELSE IF userSvc.db = 0
          THEN userSvc' = [userSvc EXCEPT
                              !.get[g] = [@ EXCEPT !.pc = "idle", !.returned = TRUE,
                                                   !.ret = 0]]
          ELSE userSvc' = [userSvc EXCEPT
                              !.get[g] = [@ EXCEPT !.pc = "store", !.read = userSvc.db]]
    /\ UNCHANGED <<recVars, limiter, movieSvc, mains>>

\* GetPreference: s.setCache(key, data, prefCacheTTL), then return pref, nil
GetSetCache(g) ==
    /\ userSvc.get[g].pc = "store"
    /\ \E setOk \in BOOLEAN :
          userSvc' = [userSvc EXCEPT
                         !.key = IF setOk THEN [present |-> TRUE, val |-> userSvc.get[g].read]
                                 ELSE @,
                         !.fault = @ \/ ~setOk,
                         !.get[g] = [@ EXCEPT !.pc = "idle", !.returned = TRUE,
                                              !.ret = userSvc.get[g].read]]
    /\ UNCHANGED <<recVars, limiter, movieSvc, mains>>

\* prefCacheTTL has run out: Redis drops the key
PrefKeyExpires ==
    /\ userSvc.key.present
    /\ userSvc' = [userSvc EXCEPT !.key = NoPrefKey]
    /\ UNCHANGED <<recVars, limiter, movieSvc, mains>>

NextUserSvc ==
    \/ SetUpsert
    \/ SetDelCache
    \/ \E g \in Getters : GetCache(g)
    \/ \E g \in Getters : GetRow(g)
    \/ \E g \in Getters : GetSetCache(g)
    \/ PrefKeyExpires

SpecUserSvc == InitUserSvc /\ [][NextUserSvc]_vars

----------------------------------------------------------------------------
(* movie-service: SyncMovies with its runtime goroutine, ListMovies and    *)
(* GetMovieDetail, for one movie, with its row in movies and the Redis     *)
(* keys movies:list:... and movie:detail:{id}.  The popularity TMDB        *)
(* reports is 1 or 2; runtime is 0 (not fetched yet) or 1.                 *)

Popularities == {1, 2}

\* the two read operations, named by the key family they cache under
ReadKinds == {"list", "detail"}

\* concurrent reads
Readers == {1, 2}

NoMovieKey == [present |-> FALSE, val |-> <<>>]

\* repo.ListMovies gives popularity, repo.GetMovieByID popularity and runtime
View(kind, row) ==
    IF kind = "list" THEN <<row.popularity>> ELSE <<row.popularity, row.runtime>>

\* a read: where it stands, what it read, its result, and whether it
\* started after SyncMovies and its runtime goroutine had both finished,
\* with no sync started since
IdleReader ==
    [pc |-> "idle", kind |-> "list", read |-> <<>>, returned |-> FALSE, ret |-> <<>>,
     after |-> FALSE]

InitMovieSvc ==
    /\ now = 0
    /\ cache = [k \in CacheKeys |-> NoEntry]
    /\ snapshots = {}
    /\ req = [w \in Workers |-> IdleReq]
    /\ gor = [w \in Workers |-> IdleGor]
    /\ eng = EngOff
    /\ limiter = LimiterOff
    /\ userSvc = UserSvcOff
    /\ mains = MainsOff
    /\ movieSvc = [db |-> [popularity |-> 1, runtime |-> 1], fault |-> FALSE,
                   keys |-> [kind \in ReadKinds |-> NoMovieKey],
                   sync |-> "idle", rt |-> "idle",
                   rd |-> [r \in Readers |-> IdleReader]]

\* repo.UpsertMovie: the movie struct of SyncMovies carries no runtime, and
\* ON CONFLICT sets runtime = EXCLUDED.runtime
UpsertMovie(row, popularity) == [popularity |-> popularity, runtime |-> 0]

\* SyncMovies up to the end of its page loop: the movie is upserted; an
\* upsert that fails is logged and skipped
SyncUpsert ==
    /\ movieSvc.sync \in {"idle", "done"}
    /\ movieSvc.rt \in {"idle", "done"}
    /\ \E popularity \in Popularities, execOk \in BOOLEAN :
          movieSvc' = [movieSvc EXCEPT
                          !.db = IF execOk THEN UpsertMovie(@, popularity) ELSE @,
                          !.sync = "spawn",
                          !.rd = [r \in Readers |-> [@[r] EXCEPT !.after = FALSE]]]
    /\ UNCHANGED <<recVars, limiter, userSvc, mains>>

\* go s.syncRuntimes()
SyncSpawn ==
    /\ movieSvc.sync = "spawn"
    /\ movieSvc' = [movieSvc EXCEPT !.sync = "lists", !.rt = "query"]
    /\ UNCHANGED <<recVars, limiter, userSvc, mains>>

\* invalidateCache: SCAN movies:* and DEL, then SCAN movie:* and DEL; the
\* errors are dropped
SyncInvalidate(kind) ==
    /\ movieSvc.sync = (IF kind = "list" THEN "lists" ELSE "details")
    /\ \E delOk \in BOOLEAN :
          movieSvc' = [movieSvc EXCEPT
                          !.keys[kind] = IF delOk THEN NoMovieKey ELSE @,
                          !.fault = @ \/ ~delOk,
                          !.sync = IF kind = "list" THEN "details" ELSE "done"]
    /\ UNCHANGED <<recVars, limiter, userSvc, mains>>

\* syncRuntimes: repo.GetAllMovies, SELECT ... WHERE runtime = 0
RuntimeQuery ==
    /\ movieSvc.rt = "query"
    /\ movieSvc' = [movieSvc EXCEPT !.rt = IF movieSvc.db.runtime = 0 THEN "update" ELSE "done"]
    /\ UNCHANGED <<recVars, limiter, userSvc, mains>>

\* syncRuntimes: tmdbClient.GetMovieDetail and repo.UpdateRuntime; a failure
\* of either is logged
RuntimeUpdate ==
    /\ movieSvc.rt = "update"
    /\ \E ok \in BOOLEAN :
          movieSvc' = [movieSvc EXCEPT !.db.runtime = IF ok THEN 1 ELSE @, !.rt = "done"]
    /\ UNCHANGED <<recVars, limiter, userSvc, mains>>

\* ListMovies / GetMovieDetail: the cache read; a hit is returned
ReadCache(r) ==
    /\ movieSvc.rd[r].pc = "idle"
    /\ LET after == movieSvc.sync = "done" /\ movieSvc.rt = "done"
       IN  \E kind \in ReadKinds, getOk \in BOOLEAN :
              IF getOk /\ movieSvc.keys[kind].present
              THEN movieSvc' = [movieSvc EXCEPT
                                   !.rd[r] = [pc |-> "idle", kind |-> kind, read |-> <<>>,
                                              returned |-> TRUE,
                                              ret |-> movieSvc.keys[kind].val,
                                              after |-> after]]
              ELSE movieSvc' = [movieSvc EXCEPT
                                   !.fault = @ \/ ~getOk,
                                   !.rd[r] = [pc |-> "db", kind |-> kind, read |-> <<>>,
                                              returned |-> FALSE, ret |-> <<>>,
                                              after |-> after]]
    /\ UNCHANGED <<recVars, limiter, userSvc, mains>>

\* the database query; its error ends the read
ReadRow(r) ==
    /\ movieSvc.rd[r].pc = "db"
    /\ \E queryOk \in BOOLEAN :
          IF queryOk
          THEN movieSvc' = [movieSvc EXCEPT
                               !.rd[r] = [@ EXCEPT !.pc = "store",
                                                   !.read = View(movieSvc.rd[r].kind, movieSvc.db)]]
          ELSE movieSvc' = [movieSvc EXCEPT
                               !.fault = TRUE,
                               !.rd[r] = [@ EXCEPT !.pc = "idle", !.returned = TRUE]]
    /\ UNCHANGED <<recVars, limiter, userSvc, mains>>

\* s.setCache(cacheKey, data, ttl), then the return
ReadSetCache(r) ==
    /\ movieSvc.rd[r].pc = "store"
    /\ LET rd == movieSvc.rd[r]
       IN  \E setOk \in BOOLEAN :
              movieSvc' = [movieSvc EXCEPT
                              !.keys[rd.kind] = IF setOk THEN [present |-> TRUE, val |-> rd.read]
                                                ELSE @,
                              !.fault = @ \/ ~setOk,
                              !.rd[r] = [@ EXCEPT !.pc = "idle", !.returned = TRUE,
                                                  !.ret = rd.read]]
    /\ UNCHANGED <<recVars, limiter, userSvc, mains>>

\* movieListCacheTTL or movieDetailCacheTTL has run out
MovieKeyExpires ==
    /\ \E kind \in ReadKinds :
          /\ movieSvc.keys[kind].present
          /\ movieSvc' = [movieSvc EXCEPT !.keys[kind] = NoMovieKey]
    /\ UNCHANGED <<recVars, limiter, userSvc, mains>>

NextMovieSvc ==
    \/ SyncUpsert
    \/ SyncSpawn
    \/ \E kind \in ReadKinds : SyncInvalidate(kind)
    \/ RuntimeQuery
    \/ RuntimeUpdate
    \/ \E r \in Readers : ReadCache(r)
    \/ \E r \in Readers : ReadRow(r)
    \/ \E r \in Readers : ReadSetCache(r)
    \/ MovieKeyExpires

SpecMovieSvc == InitMovieSvc /\ [][NextMovieSvc]_vars

----------------------------------------------------------------------------
(* The main function of each service from SIGINT/SIGTERM to its exit.  A   *)
(* step is "http" (app.Shutdown), "postgres" (db.Close) or "redis"         *)
(* (rdb.Close).  The movie service has two main functions in the source:   *)
(* movie-service/cmd/main.go ("movie-cmd") and the one that blocks in      *)
(* app.Listen ("movie").                                                   *)

Services == {"recommendation", "movie", "movie-cmd", "user-preference", "gateway"}

\* the gateway has no PostgreSQL connection
UsesPostgres(s) == s /= "gateway"

\* the movie and user-preference services start without Redis when it cannot
\* be reached; the recommendation service and the gateway exit then
RedisOptional(s) == s \in {"movie", "movie-cmd", "user-preference"}

\* what main runs once the signal has arrived, in the order it runs it:
\* recommendation: app.Shutdown(), then the deferred calls last-in-first-out
\*   (rdb.Close was deferred after db.Close);
\* movie, user-preference: app.Shutdown() in the signal goroutine, app.Listen
\*   returns and main ends with the deferred db.Close(); rdb is not closed;
\* movie-cmd: app.Shutdown(), db.Close(), rdb.Close() when rdb is not nil;
\* gateway: app.Shutdown(), rdb.Close()
ShutdownSteps(s, hasRedis) ==
    IF s = "recommendation" THEN <<"http", "redis", "postgres">>
    ELSE IF s \in {"movie", "user-preference"} THEN <<"http", "postgres">>
    ELSE IF s = "movie-cmd"
    THEN <<"http", "postgres">> \o (IF hasRedis THEN <<"redis">> ELSE <<>>)
    ELSE <<"http", "redis">>

InitMains ==
    /\ now = 0
    /\ cache = [k \in CacheKeys |-> NoEntry]
    /\ snapshots = {}
    /\ req = [w \in Workers |-> IdleReq]
    /\ gor = [w \in Workers |-> IdleGor]
    /\ eng = EngOff
    /\ limiter = LimiterOff
    /\ userSvc = UserSvcOff
    /\ movieSvc = MovieSvcOff
    /\ \E connected \in [Services -> BOOLEAN] :
          /\ \A s \in Services : ~RedisOptional(s) => connected[s]
          /\ mains = [s \in Services |->
                         [pc |-> "serving", hasRedis |-> connected[s], done |-> <<>>]]

\* SIGINT or SIGTERM is delivered
MainSignal(s) ==
    /\ mains[s].pc = "serving"
    /\ mains' = [mains EXCEPT ![s].pc = "signalled"]
    /\ UNCHANGED <<recVars, limiter, userSvc, movieSvc>>

\* the next step of the shutdown
MainStep(s) ==
    /\ mains[s].pc = "signalled"
    /\ Len(mains[s].done) < Len(ShutdownSteps(s, mains[s].hasRedis))
    /\ mains' = [mains EXCEPT
                    ![s].done = Append(@, ShutdownSteps(s, mains[s].hasRedis)[Len(@) + 1])]
    /\ UNCHANGED <<recVars, limiter, userSvc, movieSvc>>

\* main returns
MainExit(s) ==
    /\ mains[s].pc = "signalled"
    /\ Len(mains[s].done) = Len(ShutdownSteps(s, mains[s].hasRedis))
    /\ mains' = [mains EXCEPT ![s].pc = "exited"]
    /\ UNCHANGED <<recVars, limiter, userSvc, movieSvc>>

NextMains ==
    \/ \E s \in Services : MainSignal(s)
    \/ \E s \in Services : MainStep(s)
    \/ \E s \in Services : MainExit(s)

SpecMains == InitMains /\ [][NextMains]_vars

----------------------------------------------------------------------------
(* Properties *)

KeyOf(r) == CacheKey(r.user, r.limit)
Did(r, step) == step \in Range(r.trace)
Finished(r) == r.pc = "done"

\* the rows a ranked list stands for
RowsFor(userID, recs) ==
    {[user_id |-> userID, movie_id |-> recs[i].id, score |-> recs[i].score] : i \in 1..Len(recs)}

\* C1: a request answered from the cache finds a live entry under its own
\* key, returns exactly the response that entry was written from, and does
\* nothing else: no fetch, no rule read, no cache write, no snapshot work.
C1_HitReturnsStored ==
    [][\A w \in Workers :
          (req[w].pc = "idle" /\ req'[w].pc = "done" /\ req'[w].status = 200)
          => /\ Live(cache[KeyOf(req'[w])], now)
             /\ req'[w].resp = cache[KeyOf(req'[w])].src
             /\ req'[w].trace = <<"cacheGet", "respond">>
             /\ UNCHANGED <<cache, snapshots, gor>>]_vars

\* C1 witness: a request was answered from the cache with a ranked list
C1_Witness ==
    \E w \in Workers :
        /\ Finished(req[w]) /\ req[w].status = 200
        /\ req[w].trace = <<"cacheGet", "respond">>
        /\ Len(req[w].resp.recommendations) > 0

\* C2 as claimed: an error response only for an invalid id or a failed list
\* fetch.
C2_ErrorOnlyOnListOrInput ==
    \A w \in Workers :
        (Finished(req[w]) /\ req[w].status # 200) => (req[w].user <= 0 \/ req[w].listFailed)

\* C2 amended: 400 exactly for an invalid id, 500 exactly when a list fetch
\* or the rule read failed, 200 otherwise - whatever the preference service,
\* the cache and the snapshot store did.
C2_ErrorCauses ==
    \A w \in Workers :
        Finished(req[w]) =>
            /\ req[w].status \in {200, 400, 500}
            /\ req[w].status = 400 <=> req[w].user <= 0
            /\ req[w].status = 500 <=> (req[w].listFailed \/ req[w].rulesFailed)

\* C2 witness: one request failed on the rule read, another was answered
\* although its preference fetch and a snapshot statement failed
C2_Witness ==
    \E w1, w2 \in Workers :
        /\ Finished(req[w1]) /\ req[w1].status = 500 /\ req[w1].rulesFailed
        /\ Finished(req[w2]) /\ req[w2].status = 200 /\ req[w2].prefFailed
        /\ gor[w2].storeFailed

\* C3: a failed list fetch ends the request at once with an error and no
\* list; the step touches neither cache nor snapshots and starts no goroutine,
\* and the request never writes the cache afterwards.
C3_ListFailureIsFatal ==
    [][\A w \in Workers :
          req'[w].listFailed
          => /\ Finished(req'[w]) /\ req'[w].status = 500
             /\ req'[w].resp = NoResp
             /\ ~Did(req'[w], "cacheSet") /\ ~Did(req'[w], "spawn")
             /\ gor'[w] = IdleGor
             /\ ~req[w].listFailed => UNCHANGED <<cache, snapshots, gor>>]_vars

\* C3 witness: a request ended on a failed list fetch
C3_Witness ==
    \E w \in Workers : req[w].listFailed /\ Finished(req[w]) /\ Did(req[w], "pool")

\* what a finished request must look like after a failed preference fetch
\* and a non-empty pool: 200, the top of the pool in score order, every score
\* the sum of the popularity and recency terms alone, no genre tag
DegradedRanking(r) ==
    /\ r.status = 200
    /\ Len(r.resp.recommendations) = Min(r.limit, Len(r.pool))
    /\ Len(r.resp.recommendations) > 0
    /\ Descending(r.resp.recommendations)
    /\ \A i \in 1..Len(r.resp.recommendations) :
          LET rec == r.resp.recommendations[i]
          IN  /\ "matches your preferred genres" \notin Range(rec.reason)
              /\ \E k \in 1..Len(r.pool), rules \in RuleSets :
                    /\ r.pool[k].id = rec.id
                    /\ rec.score = TotalScore(PopComponent(r.pool[k], r.pool, rules),
                                              RecencyComponent(r.pool[k], rules,
                                                               r.resp.generated_at),
                                              [on |-> FALSE, w |-> 0, num |-> 0, den |-> 1])

C5_EmptyPoolIsEmptySuccess ==
    [][\A w \in Workers :
          (Did(req'[w], "pool") /\ ~req'[w].listFailed /\ Len(req'[w].pool) = 0)
          => /\ Finished(req'[w]) /\ req'[w].status = 200
             /\ req'[w].resp.recommendations = <<>>
             /\ req'[w].resp.user_id = req'[w].user
             /\ req'[w].trace = <<"cacheGet", "prefs", "pool", "respond">>
             /\ gor'[w] = IdleGor
             /\ ~Did(req[w], "pool") => UNCHANGED <<cache, snapshots, gor>>]_vars

\* C5 witness: an empty pool was answered while the user has snapshot rows
C5_Witness ==
    \E w \in Workers :
        /\ Did(req[w], "pool") /\ ~req[w].listFailed /\ Len(req[w].pool) = 0
        /\ Finished(req[w])
        /\ RowsOf(snapshots, req[w].user) # {}

\* C6: whenever a generation's snapshot write finishes (and no snapshot
\* statement of any generation has failed), the user's rows are exactly the
\* (item, score) pairs of that generation's list.
C6_SnapshotFullyReplaced ==
    [][\A w \in Workers :
          (/\ gor[w].pc \in {"clear", "upsert"}
           /\ gor'[w].pc = "done"
           /\ \A v \in Workers : ~gor'[v].storeFailed)
          => RowsOf(snapshots', req[w].user)
             = RowsFor(req[w].user, req[w].resp.recommendations)]_vars

\* the order of the steps of a request that ranks a non-empty pool
MissOrder ==
    <<"cacheGet", "prefs", "pool", "rules", "score", "rank", "spawn", "cacheSet", "respond">>

C8_SnapshotNeverBlocksOrFails ==
    [][\A w \in Workers :
          /\ (gor[w].pc \in {"clear", "upsert"} /\ gor'[w] # gor[w])
             => (req' = req /\ cache' = cache)
          /\ req[w].pc = "cacheSet" => ENABLED CacheSet(w)
          /\ (Finished(req'[w]) /\ Did(req'[w], "spawn")) => req'[w].status = 200]_vars

\* C8 witness: one request has returned before its goroutine ran the clear,
\* another has returned 200 although a snapshot statement failed
C8_Witness ==
    \E w1, w2 \in Workers :
        /\ Finished(req[w1]) /\ req[w1].status = 200 /\ gor[w1].pc = "clear"
        /\ Finished(req[w2]) /\ req[w2].status = 200 /\ gor[w2].storeFailed

\* C9: with the client free to go away at any moment, a started snapshot
\* goroutine always reaches its end; cancelling the request changes neither
\* the goroutine nor the rows; and a goroutine that ended without a failed
\* statement has cleared the user's rows and written one row per
\* recommendation.
C9_SnapshotRunsToEnd ==
    /\ (gor[1].pc \in {"clear", "upsert"}) ~> (gor[1].pc = "done")
    /\ [][(req'[1].cancelled /\ ~req[1].cancelled) => UNCHANGED <<gor, snapshots>>]_vars
    /\ []((gor[1].pc = "done" /\ ~gor[1].storeFailed)
          => RowsOf(snapshots, req[1].user)
             = RowsFor(req[1].user, req[1].resp.recommendations))

\* C9 witness: the request was cancelled before its cache write and the
\* goroutine still wrote all three rows
C9_Witness ==
    /\ req[1].cancelled /\ Finished(req[1])
    /\ gor[1].pc = "done" /\ ~gor[1].storeFailed
    /\ Cardinality(RowsOf(snapshots, req[1].user)) = 3
    /\ ~Live(cache[KeyOf(req[1])], now)

\* the request as a cache miss leaves it
MissState(userID, limit) ==
    [IdleReq EXCEPT !.pc = "prefs", !.user = userID, !.limit = limit, !.trace = <<"cacheGet">>]

\* C10: a request with a valid id leaves the cache check either answered
\* from a live, decodable entry or in exactly the state of a miss - never
\* failed; and the cache write ends with 200 and the response as built,
\* whether or not the entry was stored.
C10_CacheFailureIsAMiss ==
    [][\A w \in Workers :
          /\ (req[w].pc = "idle" /\ req'[w].pc # "idle" /\ req'[w].user > 0)
             => \/ req'[w] = MissState(req'[w].user, req'[w].limit)
                \/ /\ Live(cache[KeyOf(req'[w])], now)
                   /\ Unmarshal(cache[KeyOf(req'[w])].val).ok
                   /\ Finished(req'[w]) /\ req'[w].status = 200
          /\ (req[w].pc = "cacheSet" /\ req'[w].pc # "cacheSet")
             => /\ Finished(req'[w]) /\ req'[w].status = 200
                /\ req'[w].resp = req[w].resp
                /\ cache' \in {cache, CacheWrite(cache, req[w], now)}]_vars

\* C10 witness: one request went on as a miss although its key holds a live
\* value (undecodable, or the read failed); another returned 200 with a
\* ranking although its cache write stored nothing
C10_Witness ==
    \E w1, w2 \in Workers :
        /\ req[w1].pc = "prefs" /\ Live(cache[KeyOf(req[w1])], now)
        /\ Finished(req[w2]) /\ req[w2].status = 200 /\ Did(req[w2], "cacheSet")
        /\ req[w2].resp.generated_at = now
        /\ ~Live(cache[KeyOf(req[w2])], now)

----------------------------------------------------------------------------
(* Properties of the scoring pipeline *)

\* the call has produced its ranked list
EngRanked == eng.pc \in {"ranked", "later", "done"} /\ Len(eng.pool) > 0

\* the call has scored its pool
EngScored == eng.pc \in {"scored", "ranked", "later", "done"} /\ Len(eng.pool) > 0

\* C11: whatever limit is asked for, the request goes on to the service; the
\* limit it goes on with is the one asked for when that is a number in 1..50
\* and 10 otherwise, and the list has at most that many entries.
C11_EffectiveLimit ==
    /\ eng.pc = "input" => ENABLED EngHandle
    /\ eng.pc \notin {"off", "input"} =>
          /\ eng.limit = (IF Len(eng.rawLimit) = 1 /\ eng.rawLimit[1] >= 1 /\ eng.rawLimit[1] <= 50
                          THEN eng.rawLimit[1] ELSE 10)
          /\ Len(eng.out) <= eng.limit

\* C11 witness: a list cut to the limit asked for
C11_Witness ==
    /\ eng.pc = "done" /\ eng.rawLimit = <<2>>
    /\ Len(eng.pool) > 2 /\ Len(eng.out) = 2

\* C12: the list returned is in non-increasing score order, has
\* min(limit, pool size) entries, each a different scored candidate of the
\* pool, and no candidate left out scores higher than one returned.
C12_TopPrefix ==
    EngRanked =>
        /\ Len(eng.out) = (IF eng.limit <= Len(eng.pool) THEN eng.limit ELSE Len(eng.pool))
        /\ \A i \in 1..(Len(eng.out) - 1) : eng.out[i].score >= eng.out[i + 1].score
        /\ \A i \in 1..Len(eng.out) : \E k \in 1..Len(eng.scored) : eng.scored[k] = eng.out[i]
        /\ \A i, j \in 1..Len(eng.out) : i # j => eng.out[i].id # eng.out[j].id
        /\ \A k \in 1..Len(eng.scored) :
              (\A i \in 1..Len(eng.out) : eng.out[i].id # eng.scored[k].id)
              => \A i \in 1..Len(eng.out) : eng.scored[k].score <= eng.out[i].score

\* C12 witness: two of four candidates returned, one left out scoring lower
\* than both
C12_Witness ==
    /\ EngRanked /\ Len(eng.pool) = 4 /\ Len(eng.out) = 2
    /\ eng.out[1].score > eng.out[2].score
    /\ \E k \in 1..4 : eng.scored[k].score < eng.out[2].score

\* where the candidate with this id stands in a list
PoolIndex(list, id) == CHOOSE k \in 1..Len(list) : list[k].id = id

\* C13: candidates with equal scores keep, in the ranked list, the order they
\* had in the pool.
C13_SortIsStable ==
    EngRanked =>
        \A i, j \in 1..Len(eng.ranked) :
            (i < j /\ eng.ranked[i].score = eng.ranked[j].score)
            => PoolIndex(eng.scored, eng.ranked[i].id) < PoolIndex(eng.scored, eng.ranked[j].id)

\* C14: scoring the same pool, profile and rules a second time gives the same
\* scores and reasons for every candidate.
C14_ScoringIsPure ==
    (eng.pc = "done" /\ Len(eng.pool) > 0) => eng.again = eng.scored

\* the weight of the active rule of a type, in tenths; 0 without such a rule
WeightOf(rules, ruleType) ==
    IF \E k \in 1..Len(rules) : rules[k].rule_type = ruleType
    THEN (CHOOSE rule \in Range(rules) : rule.rule_type = ruleType).weight
    ELSE 0

\* 2 * |a - b| <= d: a / d is b / d rounded to a whole number
RoundsTo(a, b, d) == IF a >= b THEN 2 * (a - b) <= d ELSE 2 * (b - a) <= d

AllWeightsPositive(rules) ==
    \A ruleType \in {"popularity", "recency", "genre_match"} : WeightOf(rules, ruleType) > 0

\* a / b >= c / d for positive b and d
FracGeq(a, b, c, d) == a * d >= c * b

\* candidate i of the scored pool is at least as good as candidate j on every
\* component and better on one (popularity and recency components of one pool
\* share their denominators)
Dominates(i, j) ==
    LET a == eng.parts[i]
        b == eng.parts[j]
    IN  /\ a.pop.num >= b.pop.num
        /\ a.rec.num >= b.rec.num
        /\ FracGeq(a.genre.num, a.genre.den, b.genre.num, b.genre.den)
        /\ \/ a.pop.num > b.pop.num
           \/ a.rec.num > b.rec.num
           \/ ~FracGeq(b.genre.num, b.genre.den, a.genre.num, a.genre.den)

\* the place of the candidate with this id in the ranked list
RankOf(id) == PoolIndex(eng.ranked, id)

\* the scenario: the two-item pool, preferred genre Action, the seeded weights
Scenario ==
    /\ eng.catalog = CatalogPair /\ eng.detailFail = {}
    /\ eng.prefs = <<"Action">> /\ eng.rules = SeededRules

\* C16 as claimed: with positive weights the better candidate scores strictly
\* higher and is ranked earlier.
C16_DominanceIsStrict ==
    (EngRanked /\ AllWeightsPositive(eng.rules)) =>
        \A i, j \in 1..Len(eng.pool) :
            Dominates(i, j) =>
                /\ eng.scored[i].score > eng.scored[j].score
                /\ RankOf(eng.scored[i].id) < RankOf(eng.scored[j].id)

\* C16 amended: with positive weights the better candidate scores at least as
\* high, and every candidate with a strictly higher score is ranked earlier;
\* in the scenario item 1 scores strictly higher than item 2 and comes first.
C16_DominanceUpToRounding ==
    /\ (EngRanked /\ AllWeightsPositive(eng.rules)) =>
          \A i, j \in 1..Len(eng.pool) :
              /\ Dominates(i, j) => eng.scored[i].score >= eng.scored[j].score
              /\ eng.scored[i].score > eng.scored[j].score
                 => RankOf(eng.scored[i].id) < RankOf(eng.scored[j].id)
    /\ (EngRanked /\ Scenario) =>
          /\ eng.scored[1].id = 1 /\ eng.scored[2].id = 2
          /\ eng.scored[1].score > eng.scored[2].score
          /\ eng.ranked[1].id = 1 /\ eng.out[1].id = 1

\* C16 witness: the scenario ranked, item 1 with 1.0 ahead of item 2 with 0.2
C16_Witness ==
    /\ EngRanked /\ AllWeightsPositive(eng.rules) /\ Scenario
    /\ Dominates(1, 2)
    /\ eng.scored[1].score = 10000 /\ eng.scored[2].score = 2000
    /\ eng.ranked[1].id = 1 /\ eng.ranked[2].id = 2

\* C17: where the popularity rule is active, every item's popularity is
\* divided by a positive number - the largest popularity of the pool, or 1
\* when all are zero - so no normalized value exceeds 1, and either some item
\* is normalized to exactly 1 or all are 0.
C17_NormalizedPopularity ==
    (EngScored /\ WeightOf(eng.rules, "popularity") > 0) =>
        LET norm == [i \in 1..Len(eng.pool) |-> eng.parts[i].pop]
        IN  /\ \A i \in 1..Len(eng.pool) :
                  /\ norm[i].den > 0
                  /\ norm[i].num = eng.pool[i].popularity
                  /\ norm[i].num >= 0 /\ norm[i].num <= norm[i].den
                  /\ norm[i].den = norm[1].den
            /\ \/ \E i \in 1..Len(eng.pool) : norm[i].num = norm[i].den
               \/ \A i \in 1..Len(eng.pool) : eng.pool[i].popularity = 0 /\ norm[i].num = 0

\* C17 witness: a pool of four items, none with any popularity, was scored
\* under the popularity rule
C17_Witness ==
    /\ EngScored /\ WeightOf(eng.rules, "popularity") > 0
    /\ Len(eng.pool) = 4
    /\ \A i \in 1..Len(eng.pool) : eng.pool[i].popularity = 0 /\ eng.parts[i].pop.num = 0

\* ticks from the release date of pool item i to the clock
AgeOf(i) == now - eng.pool[i].release_date[1]

\* C18: under the recency rule, at the time of scoring, the recency score of
\* every item lies in [0, 1]; it is 0 for an empty or unparseable date, 1 for
\* a release at this moment or in the future, 0 from day 730 on and strictly
\* between before that; and of two dated items the one released longer ago
\* never has the higher score.
C18_RecencyDecay ==
    (eng.pc \in {"scored", "ranked"} /\ WeightOf(eng.rules, "recency") > 0) =>
        /\ \A i \in 1..Len(eng.pool) :
              LET r == eng.parts[i].rec
              IN  /\ r.den = 730 * 144
                  /\ r.num >= 0 /\ r.num <= r.den
                  /\ Len(eng.pool[i].release_date) = 0 => r.num = 0
                  /\ Len(eng.pool[i].release_date) = 1 =>
                        /\ AgeOf(i) <= 0 => r.num = r.den
                        /\ AgeOf(i) >= 730 * 144 => r.num = 0
                        /\ (AgeOf(i) > 0 /\ AgeOf(i) < 730 * 144) => (r.num > 0 /\ r.num < r.den)
        /\ \A i, j \in 1..Len(eng.pool) :
              (/\ Len(eng.pool[i].release_date) = 1
               /\ Len(eng.pool[j].release_date) = 1
               /\ AgeOf(i) <= AgeOf(j))
              => eng.parts[i].rec.num >= eng.parts[j].rec.num

\* C18 witness: a pool released tomorrow, a year ago, exactly 730 days ago and
\* without a date, scored 1, one half, 0 and 0 on recency
C18_Witness ==
    /\ eng.pc = "scored" /\ WeightOf(eng.rules, "recency") > 0
    /\ Len(eng.pool) = 4
    /\ eng.pool[1].release_date = Tomorrow /\ eng.parts[1].rec.num = eng.parts[1].rec.den
    /\ eng.pool[2].release_date = YearAgo /\ 2 * eng.parts[2].rec.num = eng.parts[2].rec.den
    /\ eng.pool[3].release_date = TwoYearsAgo /\ eng.parts[3].rec.num = 0
    /\ eng.pool[4].release_date = NoDate /\ eng.parts[4].rec.num = 0

\* the genre is, disregarding case, one of the profile's preferred genres
InPreferred(genre) == \E k \in 1..Len(eng.prefs) : ToLower(eng.prefs[k]) = ToLower(genre)

\* how many of the genres of pool item i are preferred
PreferredCount(i) ==
    Cardinality({k \in 1..Len(eng.pool[i].genres) : InPreferred(eng.pool[i].genres[k])})

\* C19: under the genre rule, the genre-match score of an item is 0 when the
\* profile prefers no genre or the item has none, 1 when every genre of the
\* item is preferred, and otherwise the number of its preferred genres over
\* the number of its genres.
C19_GenreMatch ==
    (EngScored /\ WeightOf(eng.rules, "genre_match") > 0) =>
        \A i \in 1..Len(eng.pool) :
            LET g      == eng.parts[i].genre
                genres == eng.pool[i].genres
            IN  /\ g.den > 0
                /\ (Len(eng.prefs) = 0 \/ Len(genres) = 0) => g.num = 0
                /\ (Len(eng.prefs) > 0 /\ Len(genres) > 0) =>
                      /\ (\A k \in 1..Len(genres) : InPreferred(genres[k])) => g.num = g.den
                      /\ g.num * Len(genres) = PreferredCount(i) * g.den

\* C19 witness: against the preferred genres ACTION and Drama, the items
\* (Action, Comedy), (ACTION), () and (Drama, Drama) scored 1/2, 1, 0 and 1
C19_Witness ==
    /\ EngScored /\ WeightOf(eng.rules, "genre_match") > 0
    /\ eng.prefs = <<"ACTION", "Drama">> /\ Len(eng.pool) = 4
    /\ eng.pool[1].genres = <<"Action", "Comedy">> /\ 2 * eng.parts[1].genre.num = eng.parts[1].genre.den
    /\ eng.pool[2].genres = <<"ACTION">> /\ eng.parts[2].genre.num = eng.parts[2].genre.den
    /\ eng.pool[3].genres = <<>> /\ eng.parts[3].genre.num = 0
    /\ eng.pool[4].genres = <<"Drama", "Drama">> /\ eng.parts[4].genre.num = eng.parts[4].genre.den

\* the summaries on list page p of a catalog
PageData(catalog, p) == IF p <= Len(catalog.pages) THEN catalog.pages[p] ELSE <<>>

\* the summaries on pages 1..n, in order
RECURSIVE ListedUpTo(_, _)
ListedUpTo(catalog, n) ==
    IF n = 0 THEN <<>> ELSE ListedUpTo(catalog, n - 1) \o PageData(catalog, n)

\* the summaries on the pages a call fetches: the first page, then on up to
\* the last page of the catalog or the third
Listed(catalog) == ListedUpTo(catalog, Min(3, Max(1, catalog.total_pages)))

\* the call has fetched its pool
EngFetched == eng.pc \in {"fetched", "scored", "ranked", "later", "done"}

\* C20: whichever detail requests fail, the pool has one item for every
\* summary on the fetched pages, in the same order: the full detail where the
\* detail request succeeded, else the summary's id, title, release date and
\* popularity with no genres.
C20_PoolNeverShrinks ==
    EngFetched =>
        LET listed == Listed(eng.catalog)
        IN  /\ Len(eng.pool) = Len(listed)
            /\ \A k \in 1..Len(eng.pool) :
                  IF listed[k].id \in eng.detailFail
                  THEN eng.pool[k] = [listed[k] EXCEPT !.genres = <<>>]
                  ELSE eng.pool[k] = listed[k]

\* C20 witness: of four summaries the detail of the second failed; the pool
\* has four items, the second without genres
C20_Witness ==
    /\ EngFetched /\ eng.detailFail = {2}
    /\ Len(eng.pool) = 4
    /\ eng.pool[2].id = 2 /\ eng.pool[2].genres = <<>>
    /\ eng.pool[1].genres # <<>>

----------------------------------------------------------------------------
(* Properties of the catalog client *)

\* fetchMovies has returned, with a pool or with an error
EngFetchReturned == eng.pc \in {"failed", "fetched", "scored", "ranked", "later", "done"}

\* the list requests and the detail requests of the call, in the order sent
ListRequests   == SelectSeq(eng.requests, LAMBDA q : q.kind = "list")
DetailRequests == SelectSeq(eng.requests, LAMBDA q : q.kind = "detail")

\* the first page at which the loop ends when every list request succeeds
StopPage ==
    CHOOSE k \in 1..PrefetchDepth :
        /\ k = PrefetchDepth \/ k >= eng.catalog.total_pages
        /\ \A j \in 1..(k - 1) : j < eng.catalog.total_pages

\* the summaries of list pages 1..k, in list order
RECURSIVE SummariesUpTo(_)
SummariesUpTo(k) ==
    IF k = 0 THEN <<>> ELSE SummariesUpTo(k - 1) \o ListPage(eng.catalog, k).data

\* C21: fetchMovies asks for list pages 1, 2, ... in order and once each,
\* ends at the first page that reaches total_pages or at page 3, and asks
\* for the detail of exactly the items of the pages it has read; when a list
\* request fails it returns an error and no movie, and that list request is
\* the last request it sends.
C21_PagesInOrderFailureAborts ==
    EngFetchReturned =>
        LET k == Len(ListRequests)
            failsAt == IF eng.listFail \in 1..StopPage THEN eng.listFail ELSE 0
            read == IF failsAt = 0 THEN StopPage ELSE failsAt - 1
        IN  /\ \A i \in 1..k : ListRequests[i].arg = i
            /\ k <= PrefetchDepth
            /\ eng.err <=> failsAt /= 0
            /\ ~eng.err => k = StopPage
            /\ eng.err => /\ k = failsAt
                          /\ Len(eng.pool) = 0
                          /\ eng.requests[Len(eng.requests)] = ListRequest(failsAt)
            /\ Len(DetailRequests) = Len(SummariesUpTo(read))
            /\ \A i \in 1..Len(DetailRequests) :
                  DetailRequests[i].arg = SummariesUpTo(read)[i].id
            /\ \A i \in 1..Len(eng.requests) :
                  eng.requests[i].kind = "detail" =>
                      \E j \in 1..(i - 1) :
                          /\ eng.requests[j].kind = "list"
                          /\ \E n \in 1..Len(ListPage(eng.catalog, eng.requests[j].arg).data) :
                                ListPage(eng.catalog, eng.requests[j].arg).data[n].id
                                    = eng.requests[i].arg

\* the second list request fails after the first page was read with its details
C21_Witness ==
    /\ eng.pc = "failed"
    /\ eng.listFail = 2
    /\ Len(DetailRequests) > 0
    /\ Len(ListRequests) = 2
    /\ Len(eng.pool) = 0

----------------------------------------------------------------------------
(* Properties of the snapshot store *)

\* the rows of one (user, movie) pair
RowsOfPair(rows, userID, movieID) ==
    {row \in rows : row.user_id = userID /\ row.movie_id = movieID}

\* no two rows for one (user, movie) pair
UniquePairs ==
    \A r1 \in snapshots : \A r2 \in snapshots :
        (r1.user_id = r2.user_id /\ r1.movie_id = r2.movie_id) => r1 = r2

\* an UpsertSnapshot the store executes puts the pair's score in place: on
\* an existing pair the number of rows stays, on a new pair it grows by one
UpsertOverwrites ==
    \A w \in Workers :
        (/\ gor[w].pc = "upsert"
         /\ gor'[w] /= gor[w]
         /\ ~gor'[w].storeFailed) =>
            LET rec == req[w].resp.recommendations[gor[w].i]
                had == RowsOfPair(snapshots, req[w].user, rec.id)
            IN  /\ RowsOfPair(snapshots', req[w].user, rec.id)
                      = {[user_id |-> req[w].user, movie_id |-> rec.id, score |-> rec.score]}
                /\ Cardinality(snapshots') = Cardinality(snapshots) + 1 - Cardinality(had)
                /\ \A row \in snapshots : row \notin had => row \in snapshots'

\* C22: the snapshot table never holds two rows for one (user, movie) pair,
\* whatever the order of the goroutines' clears and upserts and also when a
\* ranking names a movie twice; an upsert on a pair that has a row replaces
\* that row's score and adds none.
C22_OneRowPerPair == [] UniquePairs /\ [][UpsertOverwrites]_vars

\* a goroutine has written a ranking that names a movie twice with two
\* scores while the other worker's rows for its user are in the table: the
\* pair holds the later score alone
C22_Witness ==
    \E w \in Workers :
        LET recs == req[w].resp.recommendations
        IN  /\ gor[w].pc = "done"
            /\ ~gor[w].storeFailed
            /\ \E i \in 1..Len(recs) : \E j \in (i + 1)..Len(recs) :
                  /\ recs[i].id = recs[j].id
                  /\ recs[i].score /= recs[j].score
                  /\ RowsOfPair(snapshots, req[w].user, recs[i].id)
                        = {[user_id |-> req[w].user, movie_id |-> recs[j].id,
                            score |-> recs[j].score]}
            /\ \E v \in Workers : v /= w /\ RowsOf(snapshots, req[v].user) /= {}

----------------------------------------------------------------------------
(* Properties of the gateway rate limiter *)

\* the requests that came in during the seconds t .. t + n - 1 and were
\* passed on
RECURSIVE PassedIn(_, _)
PassedIn(t, n) ==
    IF n = 0 \/ t > MaxClock THEN 0 ELSE limiter.passed[t] + PassedIn(t + 1, n - 1)

\* C23: while Redis answers and the gateway runs, no interval of windowSec
\* seconds sees more than maxReqs requests of the IP passed on.
C23_SlidingWindow ==
    ~limiter.outage => \A t \in 0..MaxClock : PassedIn(t, windowSec) <= maxReqs


\* handler i takes a request in this step
Arrives(i) == limiter.h[i].pc = "idle" /\ limiter'.sent = limiter.sent + 1
                 /\ limiter'.h[i] /= limiter.h[i]

\* C24: a request that comes in while Redis does not answer (its INCR
\* fails) is passed to the next handler at once, whatever the counter
\* holds; it is never answered with 429.
C24_FailOpen ==
    [][\A i \in Handlers :
          (Arrives(i) /\ ~limiter.up) =>
              /\ limiter'.h[i].pc = "idle"
              /\ limiter'.h[i].out = "open"
              /\ limiter'.passed = PassedAt(limiter.passed, limiter.clock)
              /\ limiter'.key = limiter.key]_vars

\* the IP is over its limit, Redis is down, and its request was passed on
C24_Witness ==
    /\ ~limiter.up
    /\ limiter.key.present
    /\ limiter.key.count > maxReqs
    /\ \E i \in Handlers : limiter.h[i].pc = "idle" /\ limiter.h[i].out = "open"

\* C30: a counter key that exists has an expiry of at most windowSec
\* seconds, at every moment at which no handler stands between its INCR and
\* its EXPIRE.
C30_KeyCarriesExpiry ==
    (limiter.key.present /\ \A i \in Handlers : limiter.h[i].pc /= "expire") =>
        /\ limiter.key.ttl
        /\ limiter.key.exp - limiter.clock <= windowSec

----------------------------------------------------------------------------
(* Properties of the user-preference cache *)

\* C25: while Redis and PostgreSQL answer, a GetPreference call that started
\* after a SetPreference had returned with p, with no SetPreference started
\* since, returns p.
C25_ReadsLastUpdate ==
    ~userSvc.fault =>
        \A g \in Getters :
            (userSvc.get[g].returned /\ userSvc.get[g].expect /= 0) =>
                userSvc.get[g].ret = userSvc.get[g].expect

----------------------------------------------------------------------------
(* Properties of the movie cache *)

\* C26: while Redis and PostgreSQL answer, a ListMovies or GetMovieDetail
\* call that started after SyncMovies and its runtime goroutine had both
\* finished returns what the movies table holds.
C26_ReadsAfterSyncAreCurrent ==
    ~movieSvc.fault =>
        \A r \in Readers :
            (movieSvc.rd[r].returned /\ movieSvc.rd[r].after) =>
                movieSvc.rd[r].ret = View(movieSvc.rd[r].kind, movieSvc.db)

----------------------------------------------------------------------------
(* Properties of the shutdown *)

\* the README's order, for the connections the service holds
DocumentedSteps(s) ==
    <<"http">> \o (IF UsesPostgres(s) THEN <<"postgres">> ELSE <<>>)
               \o (IF mains[s].hasRedis THEN <<"redis">> ELSE <<>>)

\* C27: a service that has exited after SIGINT/SIGTERM has stopped its HTTP
\* server, then closed PostgreSQL, then closed Redis: each step for a
\* connection it holds, in this order.
C27_ShutdownOrder ==
    \A s \in Services : mains[s].pc = "exited" => mains[s].done = DocumentedSteps(s)

----------------------------------------------------------------------------
(* Properties of the cache contents *)

NonIncreasing(recs) == \A i \in 1..(Len(recs) - 1) : recs[i].score >= recs[i + 1].score

\* what the service has stored under key k is the encoding of a response
\* for k's user with 1 to k's limit recommendations, best first
WellFormedEntry(k) ==
    LET resp == cache[k].src
    IN  /\ cache[k].val = Marshal(resp)
        /\ Unmarshal(cache[k].val) = [ok |-> TRUE, resp |-> resp]
        /\ resp.user_id = k[1]
        /\ Len(resp.recommendations) >= 1
        /\ Len(resp.recommendations) <= k[2]
        /\ NonIncreasing(resp.recommendations)

\* a step that puts a value under key k is the cache write of a request for
\* k's user and limit that has a ranking, and it touches no other key
WritesOwnKey ==
    \A k \in CacheKeys :
        (cache'[k] /= cache[k] /\ cache'[k].present) =>
            \E w \in Workers :
                /\ req[w].pc = "cacheSet"
                /\ KeyOf(req[w]) = k
                /\ cache'[k].src = req[w].resp
                /\ Finished(req'[w]) /\ req'[w].status = 200
                /\ \A j \in CacheKeys : j /= k => cache'[j] = cache[j]

\* a request that ends with an error or with an empty list has written
\* nothing to the cache, and a hit is answered from the request's own key
OthersLeaveCache ==
    \A w \in Workers :
        (~Finished(req[w]) /\ Finished(req'[w])) =>
            /\ (req'[w].status /= 200 \/ Len(req'[w].resp.recommendations) = 0)
                  => (cache' = cache /\ ~Did(req'[w], "cacheSet"))
            /\ (req[w].pc = "idle" /\ req'[w].status = 200)
                  => (cache' = cache /\ req'[w].resp = Unmarshal(cache[KeyOf(req'[w])].val).resp)

\* C28: every value the service writes under recommendations:{u}:{l} is a
\* response for user u with between 1 and l recommendations in
\* non-increasing score order; it is written by a request for u and l;
\* requests that end with an empty list or an error write nothing, and a
\* hit is read from the request's own key.
C28_CacheHoldsOwnRankings ==
    /\ [] (\A k \in CacheKeys : (cache[k].present /\ cache[k].val /= Garbage) => WellFormedEntry(k))
    /\ [][WritesOwnKey /\ OthersLeaveCache]_vars

\* both keys of user 1 are filled: limit 1 with one recommendation, limit 10
\* with the three of the pool
C28_Witness ==
    /\ cache[CacheKey(1, 1)].present
    /\ Len(cache[CacheKey(1, 1)].src.recommendations) = 1
    /\ cache[CacheKey(1, DefaultLimit)].present
    /\ cache[CacheKey(1, DefaultLimit)].val /= Garbage
    /\ Len(cache[CacheKey(1, DefaultLimit)].src.recommendations) = 3


----------------------------------------------------------------------------
(* Properties of the snapshot rows against the cache *)

\* the requests for userID that wrote a ranking to the cache
CacheWriters(userID) ==
    {w \in Workers : req[w].user = userID /\ Finished(req[w]) /\ Did(req[w], "cacheSet")}

\* nothing for userID is under way: each request for the user has returned
\* and its goroutine has ended
Quiescent(userID) ==
    \A w \in Workers :
        req[w].user = userID =>
            /\ Finished(req[w])
            /\ gor[w].pc \in {"idle", "done"}

\* every ranking written for userID is in the cache as it was written (no
\* cache write failed, none has expired) and no snapshot statement failed
StoresIntact(userID) ==
    /\ \A w \in Workers : ~gor[w].storeFailed
    /\ \A w \in CacheWriters(userID) :
          /\ Live(cache[KeyOf(req[w])], now)
          /\ cache[KeyOf(req[w])].src = req[w].resp

\* C29: once nothing is under way for a user and no store operation has
\* failed, the user's snapshot rows are the items and scores of the cache
\* entry written last for the user; whichever of the user's entries that is,
\* the rows are those of one of the rankings written.
C29_SnapshotAgreesWithCache ==
    \A userID \in Users :
        (Quiescent(userID) /\ StoresIntact(userID) /\ CacheWriters(userID) /= {}) =>
            \E w \in CacheWriters(userID) :
                RowsOf(snapshots, userID) = RowsFor(userID, req[w].resp.recommendations)

============================================================================
